---------------------------- MODULE Spec2Model ----------------------------
(***************************************************************************)
(* A model of the data storyteller application (gumwoo/gpt_project):       *)
(* the Streamlit script main() of app.py, the narrative service client     *)
(* generate_data_story, the chart binder create_chart of                    *)
(* data_visualizer.py and the encoding-resilient loader of data_loader.py. *)
(*                                                                         *)
(* Python values are modelled as strings.  The reserved strings below      *)
(* stand for values that are not strings: a missing dictionary key, None,  *)
(* a non-zero number, a non-empty list and a dictionary.                   *)
(***************************************************************************)
EXTENDS Integers, Sequences, FiniteSets, TLC

VARIABLES
    pc,            \* position of the script run main() (Spec)
    input,         \* the widgets' values of the current interaction
    df,            \* main's local df: a dataset, or NoDf for None
    story_result,  \* main's local story_result
    idx,           \* index of the insight the rendering loop is at
    out,           \* what the run has rendered so far, in order
    posts,         \* number of HTTP POSTs sent to the narrative service
    analyses,      \* number of analyze_dataframe calls
    call,          \* arguments of a direct call of a function
    ret,           \* what that call returned or raised
    fs,            \* the working directory: path -> file
    load           \* the running load_uploaded_file operations

vars == <<pc, input, df, story_result, idx, out, posts, analyses, call, ret, fs, load>>

----------------------------------------------------------------------------
(* Bounds of the model *)

MaxCols == 3       \* columns of the datasets handed to create_chart
MaxInsights == 2   \* length of key_insights in a story response
NLoads == 2        \* load_uploaded_file operations that may overlap
MaxCorrCols == 3   \* numeric columns of a correlation matrix
MaxRows == 4       \* rows of the datasets whose columns are enumerated

----------------------------------------------------------------------------
(* Python values *)

Absent == "<absent>"   \* the key is not in the dictionary
Null   == "<null>"     \* None / JSON null
Num    == "<num>"      \* a non-zero number
List   == "<list>"     \* a non-empty list (unhashable)
Dict   == "<dict>"     \* a dictionary

NonStrings == {Null, Num, List, Dict}

\* dict.get(key): a missing key reads as None
Get(v) == IF v = Absent THEN Null ELSE v

\* dict.get(key, default)
GetOr(v, default) == IF v = Absent THEN default ELSE v

\* Python truthiness of `not v` for the values of the model
Falsy(v) == v \in {Null, ""}

\* str.lower() on the strings of the model
Lower(s) ==
    CASE s = "HeatMap" -> "heatmap"
      [] s = "BAR" -> "bar"
      [] OTHER -> s

----------------------------------------------------------------------------
(* Tabular datasets: a dataset is the set of the columns it holds, taken  *)
(* from a fixed universe of typed columns; the column order is the order  *)
(* of the universe.                                                       *)

ColumnUniverse ==
    << [name |-> "region", dtype |-> "object"],
       [name |-> "sales",  dtype |-> "int64"],
       [name |-> "units",  dtype |-> "float64"],
       [name |-> "price",  dtype |-> "float64"],
       [name |-> "date",   dtype |-> "object"],
       [name |-> "active", dtype |-> "bool"] >>

ColIds == 1..MaxCols

Datasets == SUBSET ColIds

NoDf == {0}

Columns(d) == {ColumnUniverse[i].name : i \in d}

\* df.select_dtypes(include=['int64', 'float64']).columns
NumericCols(d) == {ColumnUniverse[i].name : i \in {j \in d : ColumnUniverse[j].dtype \in {"int64", "float64"}}}

\* x in df.columns: pandas hashes the key first, so an unhashable key raises
InColumns(v, d) == v \in Columns(d)

Unhashable(v) == v \in {List, Dict}

----------------------------------------------------------------------------
(* Chart Binder: data_visualizer.create_chart *)

Fig == "fig"

NoRoutine == "none"

ChartResult(result, exc, routine, x, y) ==
    [result |-> result, exc |-> exc, routine |-> routine, x |-> x, y |-> y]

\* create_heatmap(df, chart_info); lib is what the plotting library does
create_heatmap(d, chart_info, lib) ==
    IF Cardinality(NumericCols(d)) < 2
    THEN ChartResult("null", "", "create_heatmap", Null, Null)
    ELSE IF lib = "raise"
         THEN ChartResult("raise", "Exception", "create_heatmap", Null, Null)
         ELSE ChartResult(Fig, "", "create_heatmap", Null, Null)

\* create_bar_chart, create_line_chart, create_scatter_chart, create_pie_chart:
\* calls of the plotting libraries on df[x_column], df[y_column]
create_xy_chart(routine, x, y, lib) ==
    IF lib = "raise"
    THEN ChartResult("raise", "Exception", routine, x, y)
    ELSE ChartResult(Fig, "", routine, x, y)

\* the dispatch inside the try block of create_chart
Dispatch(d, chart_info, chart_type, x, y, lib) ==
    CASE chart_type = "bar"     -> create_xy_chart("create_bar_chart", x, y, lib)
      [] chart_type = "line"    -> create_xy_chart("create_line_chart", x, y, lib)
      [] chart_type = "scatter" -> create_xy_chart("create_scatter_chart", x, y, lib)
      [] chart_type = "pie"     -> create_xy_chart("create_pie_chart", x, y, lib)
      [] chart_type = "heatmap" -> create_heatmap(d, chart_info, lib)
      [] OTHER                  -> ChartResult("null", "", NoRoutine, x, y)

\* except Exception: return None
CatchRender(r) ==
    IF r.result = "raise" THEN [r EXCEPT !.result = "null", !.exc = ""] ELSE r

create_chart(d, chart_info, lib) ==
    LET t == GetOr(chart_info.type, "")
        x == Get(chart_info.x_column)
        y == Get(chart_info.y_column)
    IN  IF t \in NonStrings
        THEN ChartResult("raise", "AttributeError", NoRoutine, x, y)
        ELSE IF Falsy(x) \/ Falsy(y)
        THEN ChartResult("null", "", NoRoutine, x, y)
        ELSE IF Unhashable(x)
        THEN ChartResult("raise", "TypeError", NoRoutine, x, y)
        ELSE IF ~InColumns(x, d)
        THEN ChartResult("null", "", NoRoutine, x, y)
        ELSE IF Unhashable(y)
        THEN ChartResult("raise", "TypeError", NoRoutine, x, y)
        ELSE IF ~InColumns(y, d)
        THEN ChartResult("null", "", NoRoutine, x, y)
        ELSE CatchRender(Dispatch(d, chart_info, Lower(t), x, y, lib))


----------------------------------------------------------------------------
(* Encoding-Resilient Loader: data_loader.load_csv_with_encoding           *)
(*                                                                         *)
(* The bytes of a CSV file are described by what the environment does     *)
(* with them: what chardet reports, and the codecs under which            *)
(* pandas.read_csv parses them.                                           *)

Codecs == {"ascii", "utf_8", "cp949", "euc_kr", "latin_1"}

\* the codec Python resolves an encoding name to; None is pandas' default
Codec(enc) ==
    CASE enc = Null -> "utf_8"
      [] enc = "utf-8" -> "utf_8"
      [] enc \in {"cp949", "CP949"} -> "cp949"
      [] enc \in {"euc-kr", "EUC-KR"} -> "euc_kr"
      [] enc \in {"latin1", "ISO-8859-1"} -> "latin_1"
      [] enc = "ascii" -> "ascii"
      [] OTHER -> "unknown"

DetectFails == "<detect raises>"

DetectValues == {DetectFails, Null, "ascii", "EUC-KR", "ISO-8859-1", "Windows-1254"}

\* the bytes of a CSV file: detected is chardet's answer, parses the codecs
\* under which read_csv succeeds, data the columns the file holds
Content(detected, parses, data) == [detected |-> detected, parses |-> parses, data |-> data]

Contents == [detected : DetectValues, parses : SUBSET Codecs, data : {{1, 2}}]

\* a file that was opened for writing and holds no bytes yet
EmptyContent == Content(Null, {}, {})

\* a fallback list that tries cp949 before utf-8
encodingsSwapped == <<"cp949", "utf-8", "euc-kr", "latin1">>

encodings == <<"utf-8", "cp949", "euc-kr", "latin1">>

\* pd.read_csv(file_path, encoding=enc)
ReadCsvOk(content, enc) == Codec(enc) \in content.parses

LoadResult(result, enc, attempts, content) ==
    [result |-> result, enc |-> enc, attempts |-> attempts,
     data |-> IF result = "df" THEN content.data ELSE NoDf]

\* for enc in encodings: try read_csv ... except: continue; then raise ValueError
RECURSIVE TryEncodings(_, _, _)
TryEncodings(content, i, attempts) ==
    IF i > Len(encodings)
    THEN LoadResult("raise", Null, attempts, content)
    ELSE IF ReadCsvOk(content, encodings[i])
         THEN LoadResult("df", encodings[i], Append(attempts, encodings[i]), content)
         ELSE TryEncodings(content, i + 1, Append(attempts, encodings[i]))

\* NoContent: there is no file at the path, every open() fails
NoContent == Content(DetectFails, {}, {})

load_csv_with_encoding(content) ==
    IF content.detected = DetectFails
    THEN TryEncodings(content, 1, <<>>)
    ELSE IF ReadCsvOk(content, content.detected)
         THEN LoadResult("df", content.detected, <<content.detected>>, content)
         ELSE TryEncodings(content, 1, <<content.detected>>)


----------------------------------------------------------------------------
(* Story Response: the JSON value json.loads(content) yields                *)

ChartInfo(t, x, y, title) == [type |-> t, x_column |-> x, y_column |-> y, title |-> title]

NoChart == ChartInfo(Absent, Absent, Absent, Absent)

\* an element of key_insights: kind is Dict for an object; chart is the kind
\* of its chart_recommendation and chart_info the recommendation when a Dict
Insight(kind, chart, chart_info) == [kind |-> kind, chart |-> chart, chart_info |-> chart_info]

\* the parsed response: top is the kind of the JSON value; key_insights is
\* Absent, List (the list is insights) or the kind of a wrong value
Story(top, key_insights, insights, narrative, recommended_actions, actions) ==
    [top |-> top, key_insights |-> key_insights, insights |-> insights,
     narrative |-> narrative, recommended_actions |-> recommended_actions,
     actions |-> actions]

\* a JSON value that is not an object; Null is None
Scalar(top) == Story(top, Absent, <<>>, Absent, Absent, <<>>)

NoStory == Scalar(Null)

----------------------------------------------------------------------------
(* Narrative Service Client: app.generate_data_story                       *)
(*                                                                         *)
(* The outcome of the single HTTP call: transport is "error" when          *)
(* requests.post raises, status the HTTP status, body the kind of          *)
(* response.json() ("not_json" when it does not parse), choices the        *)
(* value of its "choices" key ("empty" an empty list, List a list whose    *)
(* first element has kind choice), message the "message" of that element, *)
(* content the "content" of the message ("not_json" and "json" are text). *)

Response(transport, status, body, choices, choice, message, content, story) ==
    [transport |-> transport, status |-> status, body |-> body, choices |-> choices,
     choice |-> choice, message |-> message, content |-> content, story |-> story]

ClientResult(result, exc, story, sent) ==
    [result |-> result, exc |-> exc, story |-> story, sent |-> sent]

\* content = response_json["choices"][0]["message"]["content"]; json.loads(content)
ParseContent(r) ==
    IF r.choice # Dict
    THEN ClientResult("raise", "TypeError", NoStory, 1)
    ELSE IF r.message = Absent
    THEN ClientResult("null", "", NoStory, 1)        \* KeyError, caught
    ELSE IF r.message # Dict
    THEN ClientResult("raise", "TypeError", NoStory, 1)
    ELSE IF r.content = Absent
    THEN ClientResult("null", "", NoStory, 1)        \* KeyError, caught
    ELSE IF r.content = "not_json"
    THEN ClientResult("null", "", NoStory, 1)        \* JSONDecodeError, caught
    ELSE IF r.content = "json"
    THEN ClientResult(IF r.story.top = Null THEN "null" ELSE "value", "", r.story, 1)
    ELSE ClientResult("raise", "TypeError", NoStory, 1)   \* json.loads of a non-string

\* the body of the try block after the request was answered with a 2xx status
ParseResponse(r) ==
    IF r.body = "not_json"
    THEN ClientResult("null", "", NoStory, 1)        \* JSONDecodeError, caught
    ELSE IF r.body = Num
    THEN ClientResult("raise", "TypeError", NoStory, 1)   \* "choices" in 5
    ELSE IF r.body # Dict \/ r.choices = Absent
    THEN ClientResult("null", "", NoStory, 1)
    ELSE IF r.choices \in {Null, Num}
    THEN ClientResult("raise", "TypeError", NoStory, 1)   \* len(None)
    ELSE IF r.choices = "empty"
    THEN ClientResult("null", "", NoStory, 1)
    ELSE ParseContent(r)

\* a client that repeats the request once when the transport fails
generate_data_storyRetrying(api_key, r) ==
    IF ~api_key
    THEN ClientResult("null", "", NoStory, 0)
    ELSE IF r.transport = "error"
    THEN ClientResult("null", "", NoStory, 2)
    ELSE IF r.status \notin 200..299
    THEN ClientResult("null", "", NoStory, 1)
    ELSE ParseResponse(r)

generate_data_story(api_key, r) ==
    IF ~api_key
    THEN ClientResult("null", "", NoStory, 0)
    ELSE IF r.transport = "error"
    THEN ClientResult("null", "", NoStory, 1)        \* RequestException, caught
    ELSE IF r.status \notin 200..299
    THEN ClientResult("null", "", NoStory, 1)        \* raise_for_status, caught
    ELSE ParseResponse(r)


----------------------------------------------------------------------------
(* data_loader.load_uploaded_file, statement by statement                  *)
(*                                                                         *)
(* An upload is the file object Streamlit hands over: its name, its bytes, *)
(* the error pd.read_csv(uploaded_file) raises when the bytes are not      *)
(* UTF-8, and what writing the temporary copy does in the environment.     *)

Upload(name, content, err, write) ==
    [name |-> name, content |-> content, err |-> err, write |-> write]

NoUpload == Upload("", NoContent, "", "ok")

\* temp_path = f"temp_{uploaded_file.name}"
TempPath(name) == "temp_" \o name

\* a path of the working directory: creator is the load operation that
\* created the file (0: it was there before), content its bytes
File(creator, content) == [exists |-> TRUE, creator |-> creator, content |-> content]

NoFile == [exists |-> FALSE, creator |-> 0, content |-> NoContent]

\* the local state of one load_uploaded_file call
LoadState(at, upload, data, exc) == [at |-> at, upload |-> upload, data |-> data, exc |-> exc]

Idle == LoadState("idle", NoUpload, NoDf, "")

Step(l, files) == [l |-> l, fs |-> files]

\* with open(temp_path, "wb") as f: an existing file is truncated, not replaced
LoadOpen(p, l, files) ==
    LET path == TempPath(l.upload.name)
    IN  IF l.upload.write = "open_fails"
        THEN Step([l EXCEPT !.at = "except", !.exc = "OSError"], files)
        ELSE Step([l EXCEPT !.at = "write"],
                  [files EXCEPT ![path] =
                      IF files[path].exists
                      THEN File(files[path].creator, EmptyContent)
                      ELSE File(p, EmptyContent)])

\* f.write(uploaded_file.getbuffer())
LoadWrite(p, l, files) ==
    LET path == TempPath(l.upload.name)
    IN  IF l.upload.write = "write_fails"
        THEN Step([l EXCEPT !.at = "except", !.exc = "OSError"], files)
        ELSE IF files[path].exists
        THEN Step([l EXCEPT !.at = "read"],
                  [files EXCEPT ![path].content = l.upload.content])
        ELSE Step([l EXCEPT !.at = "read"], files)  \* written to an unlinked file

\* df = load_csv_with_encoding(temp_path)
LoadRead(p, l, files) ==
    LET path == TempPath(l.upload.name)
        r == load_csv_with_encoding(IF files[path].exists THEN files[path].content ELSE NoContent)
    IN  IF r.result = "df"
        THEN Step([l EXCEPT !.at = "exists", !.data = r.data], files)
        ELSE Step([l EXCEPT !.at = "except", !.exc = "ValueError"], files)

\* if os.path.exists(temp_path):
LoadExists(p, l, files) ==
    IF files[TempPath(l.upload.name)].exists
    THEN Step([l EXCEPT !.at = "remove"], files)
    ELSE Step([l EXCEPT !.at = "returned"], files)

\* os.remove(temp_path); return df
LoadRemove(p, l, files) ==
    LET path == TempPath(l.upload.name)
    IN  IF files[path].exists
        THEN Step([l EXCEPT !.at = "returned"], [files EXCEPT ![path] = NoFile])
        ELSE Step([l EXCEPT !.at = "except", !.exc = "FileNotFoundError"], files)

\* a handler that re-raises without removing the temporary file
LoadExceptNoCleanup(p, l, files) ==
    Step([l EXCEPT !.at = "raised", !.exc = "Exception", !.data = NoDf], files)

\* except Exception as e: if os.path.exists(temp_path):
LoadExcept(p, l, files) ==
    IF files[TempPath(l.upload.name)].exists
    THEN Step([l EXCEPT !.at = "except_remove"], files)
    ELSE Step([l EXCEPT !.at = "raised", !.exc = "Exception", !.data = NoDf], files)

\* os.remove(temp_path); raise Exception(...)
LoadExceptRemove(p, l, files) ==
    LET path == TempPath(l.upload.name)
    IN  IF files[path].exists
        THEN Step([l EXCEPT !.at = "raised", !.exc = "Exception", !.data = NoDf],
                  [files EXCEPT ![path] = NoFile])
        ELSE Step([l EXCEPT !.at = "raised", !.exc = "FileNotFoundError", !.data = NoDf], files)

LoadDone(l) == l.at \in {"idle", "returned", "raised"}

\* the next statement of load operation p
StepLoad(p, l, files) ==
    CASE l.at = "open"          -> LoadOpen(p, l, files)
      [] l.at = "write"         -> LoadWrite(p, l, files)
      [] l.at = "read"          -> LoadRead(p, l, files)
      [] l.at = "exists"        -> LoadExists(p, l, files)
      [] l.at = "remove"        -> LoadRemove(p, l, files)
      [] l.at = "except"        -> LoadExcept(p, l, files)
      [] l.at = "except_remove" -> LoadExceptRemove(p, l, files)
      [] OTHER                  -> Step(l, files)

\* load_uploaded_file run from its first statement to its end without interruption
RECURSIVE RunLoad(_, _, _)
RunLoad(p, l, files) ==
    IF LoadDone(l) THEN Step(l, files)
    ELSE LET s == StepLoad(p, l, files) IN RunLoad(p, s.l, s.fs)

load_uploaded_file(p, upload, files) ==
    RunLoad(p, LoadState("open", upload, NoDf, ""), files)


----------------------------------------------------------------------------
(* The script run app.main                                                 *)

Event(ev, i, note) == [ev |-> ev, i |-> i, note |-> note]

Min(S) == CHOOSE m \in S : \A n \in S : m <= n

\* df.columns[0] if len(df.columns) > 0 else ""
FirstColumn(d) == IF d = {} THEN "" ELSE ColumnUniverse[Min(d)].name

\* the first column of df.select_dtypes(include=['int64', 'float64']), else ""
FirstNumericColumn(d) ==
    LET num == {j \in d : ColumnUniverse[j].dtype \in {"int64", "float64"}}
    IN  IF num = {} THEN "" ELSE ColumnUniverse[Min(num)].name

\* the deterministic fallback story built before the request
dummy_data(d) ==
    Story(Dict, List,
          <<Insight(Dict, Dict, ChartInfo("bar", FirstColumn(d), FirstNumericColumn(d), "sample chart"))>>,
          "text", List, <<Dict>>)

\* a caller that hands on what the client returned
SubstituteNothing(c, d) == c.story

\* story_result = generate_data_story(prompt);
\* if story_result is None: story_result = dummy_data
Substitute(c, d) == IF c.result = "null" THEN dummy_data(d) ELSE c.story

\* pd.read_csv(uploaded_file): pandas decodes as UTF-8
ReadUploadOk(u) == "utf_8" \in u.content.parses

\* the bundled sample files of sample_data/, as the working directory holds them
SampleContent(sample_name) ==
    CASE sample_name = "sales_data" -> Content("ascii", Codecs, {1, 2, 3})
      [] sample_name = "customer_satisfaction" -> Content("EUC-KR", {"euc_kr", "cp949", "latin_1"}, {1, 2})
      [] OTHER -> NoContent

NoSample == "none"

\* load_sample_data(sample_name)
load_sample_data(sample_name) == load_csv_with_encoding(SampleContent(sample_name))

\* lines 184-250: the file uploader, the sample selector and the loading
Load ==
    /\ pc = "start"
    /\ pc' = "loaded"
    /\ IF input.upload # NoUpload
       THEN IF ReadUploadOk(input.upload)
            THEN /\ df' = input.upload.content.data
                 /\ out' = Append(out, Event("preview", 0, "upload"))
                 /\ fs' = fs
            ELSE IF input.upload.err = "UnicodeDecodeError"
            THEN LET s == load_uploaded_file(1, input.upload, fs)
                 IN  /\ fs' = s.fs
                     /\ df' = s.l.data
                     /\ out' = Append(out, IF s.l.at = "returned"
                                           THEN Event("preview", 0, "upload")
                                           ELSE Event("error", 0, "load"))
            ELSE /\ df' = NoDf
                 /\ out' = Append(out, Event("error", 0, "load"))
                 /\ fs' = fs
       ELSE /\ fs' = fs
            /\ IF input.sample = NoSample
               THEN /\ df' = NoDf
                    /\ out' = out
               ELSE LET r == load_sample_data(input.sample)
                    IN  /\ df' = r.data
                        /\ out' = Append(out, IF r.result = "df"
                                              THEN Event("preview", 0, "sample")
                                              ELSE Event("error", 0, "load"))
    /\ UNCHANGED <<input, story_result, idx, posts, analyses, call, ret, load>>

\* a gate that asks for the button alone
ButtonAlone == input.button

\* line 252: if df is not None and st.button(...)
ButtonPressed == df # NoDf /\ input.button

\* lines 255-272: analyze_dataframe and generate_data_story_prompt
Analyze ==
    /\ pc = "loaded"
    /\ ButtonPressed
    /\ analyses' = analyses + 1
    /\ pc' = "prompted"
    /\ UNCHANGED <<input, df, story_result, idx, out, posts, call, ret, fs, load>>

\* lines 357-379 when the pipeline is not run
SkipPipeline ==
    /\ pc = "loaded"
    /\ ~ButtonPressed
    /\ pc' = "done"
    /\ UNCHANGED <<input, df, story_result, idx, out, posts, analyses, call, ret, fs, load>>


\* lines 326-338: the chart of one insight; the note is what the page shows
RenderChart(d, chart_info, lib) ==
    IF Absent \in {chart_info.type, chart_info.x_column, chart_info.y_column}
    THEN "no_chart"
    ELSE IF Unhashable(chart_info.x_column)
    THEN "error"                                      \* TypeError, caught at 337
    ELSE IF ~InColumns(chart_info.x_column, d)
    THEN "warning_columns"
    ELSE IF Unhashable(chart_info.y_column)
    THEN "error"
    ELSE IF ~InColumns(chart_info.y_column, d)
    THEN "warning_columns"
    ELSE LET c == create_chart(d, chart_info, lib)
         IN  CASE c.result = Fig    -> "chart"
               [] c.result = "null" -> "warning_chart"
               [] OTHER             -> "error"        \* caught at 337

\* lines 314-338: one iteration of the loop over key_insights
RenderOne(d, insight, lib) ==
    IF insight.kind # Dict
    THEN "skipped"
    ELSE IF insight.chart # Dict
    THEN "no_chart"
    ELSE RenderChart(d, insight.chart_info, lib)

Crash(exc) ==
    /\ pc' = "crashed"
    /\ out' = Append(out, Event("exception", 0, exc))

\* lines 306-312 and 339-340
RenderHeader ==
    /\ pc = "render"
    /\ IF story_result.top \in {Null, Num}
       THEN Crash("TypeError") /\ idx' = idx          \* "key_insights" in 5
       ELSE IF story_result.top = Dict /\ story_result.key_insights = List
       THEN /\ idx' = 1
            /\ out' = Append(out, Event("insights", 0, ""))
            /\ pc' = IF story_result.insights = <<>> THEN "narrative" ELSE "insights"
       ELSE /\ idx' = idx
            /\ out' = Append(out, Event("insights", 0, "warning_none"))
            /\ pc' = "narrative"
    /\ UNCHANGED <<input, df, story_result, posts, analyses, call, ret, fs, load>>

\* a loop without the try block of lines 327-338: a chart error ends the run
RenderInsightUnguarded ==
    /\ pc = "insights"
    /\ idx <= Len(story_result.insights)
    /\ \E lib \in {"ok", "raise"} :
          LET note == RenderOne(df, story_result.insights[idx], lib)
          IN  IF note = "error"
              THEN Crash("Exception") /\ idx' = idx
              ELSE /\ out' = Append(out, Event("insight", idx, note))
                   /\ idx' = idx + 1
                   /\ pc' = IF idx = Len(story_result.insights) THEN "narrative" ELSE "insights"
    /\ UNCHANGED <<input, df, story_result, posts, analyses, call, ret, fs, load>>

\* lines 313-338
RenderInsight ==
    /\ pc = "insights"
    /\ idx <= Len(story_result.insights)
    /\ \E lib \in {"ok", "raise"} :
          out' = Append(out, Event("insight", idx, RenderOne(df, story_result.insights[idx], lib)))
    /\ idx' = idx + 1
    /\ pc' = IF idx = Len(story_result.insights) THEN "narrative" ELSE "insights"
    /\ UNCHANGED <<input, df, story_result, posts, analyses, call, ret, fs, load>>

\* lines 342-344
RenderNarrative ==
    /\ pc = "narrative"
    /\ IF story_result.top # Dict
       THEN Crash("AttributeError")                   \* story_result.get
       ELSE /\ out' = Append(out, Event("narrative", 0, story_result.narrative))
            /\ pc' = "actions"
    /\ UNCHANGED <<input, df, story_result, idx, posts, analyses, call, ret, fs, load>>

\* lines 346-355
RenderActions ==
    /\ pc = "actions"
    /\ out' = Append(out, Event("actions", 0,
                 IF story_result.recommended_actions = List THEN "list" ELSE "none"))
    /\ pc' = "done"
    /\ UNCHANGED <<input, df, story_result, idx, posts, analyses, call, ret, fs, load>>

----------------------------------------------------------------------------
(* What the narrative service may answer *)

StoryChartInfos ==
    { ChartInfo("bar", "region", "sales", "t"),
      ChartInfo("bar", "region", "units", "t"),
      ChartInfo("bar", "nonexistent", "sales", "t"),
      ChartInfo("bar", List, "sales", "t"),
      ChartInfo("bar", Absent, "sales", "t"),
      ChartInfo(Absent, "region", "sales", "t"),
      ChartInfo(Null, "region", "sales", "t"),
      ChartInfo("unknown_type", "region", "sales", "t"),
      ChartInfo("heatmap", "region", "sales", "t"),
      ChartInfo("heatmap", Absent, Absent, "t") }

Insights ==
    { Insight("str", Absent, NoChart), Insight(Dict, Absent, NoChart),
      Insight(Dict, "str", NoChart) }
    \cup { Insight(Dict, Dict, c) : c \in StoryChartInfos }

InsightLists == UNION { [1..n -> Insights] : n \in 0..MaxInsights }

Stories ==
    { Scalar(t) : t \in {Null, Num, "str", List} }
    \cup { Story(Dict, List, l, "text", List, <<Dict>>) : l \in InsightLists }
    \cup { Story(Dict, k, <<>>, n, a, IF a = List THEN <<Dict, "str">> ELSE <<>>) :
             k \in {Absent, Null, "str", Dict}, n \in {Absent, Null, "text"},
             a \in {Absent, "str", List} }

Answer(body, choices, choice, message, content, story) ==
    Response("ok", 200, body, choices, choice, message, content, story)

Responses ==
    { Response("error", 0, Null, Absent, Null, Absent, Absent, NoStory),
      Response("ok", 500, Dict, Absent, Null, Absent, Absent, NoStory) }
    \cup { Answer(b, Absent, Null, Absent, Absent, NoStory) : b \in {"not_json", Num, List} }
    \cup { Answer(Dict, c, Null, Absent, Absent, NoStory) : c \in {Absent, Null, "empty"} }
    \cup { Answer(Dict, List, c, Absent, Absent, NoStory) : c \in {Null, Num} }
    \cup { Answer(Dict, List, Dict, m, Absent, NoStory) : m \in {Absent, Null} }
    \cup { Answer(Dict, List, Dict, Dict, c, NoStory) : c \in {Absent, Null, Num, "not_json"} }
    \cup { Answer(Dict, List, Dict, Dict, "json", s) : s \in Stories }

\* lines 275-304: the fallback story, the request and the substitution
Request ==
    /\ pc = "prompted"
    /\ \E r \in Responses :
          LET c == generate_data_story(input.api_key, r)
          IN  /\ posts' = posts + c.sent
              /\ ret' = c
              /\ IF c.result = "raise"
                 THEN Crash(c.exc) /\ story_result' = story_result
                 ELSE /\ story_result' = Substitute(c, df)
                      /\ pc' = "render"
                      /\ out' = out
    /\ UNCHANGED <<input, df, idx, analyses, call, fs, load>>


----------------------------------------------------------------------------
(* The interactions: what the user uploads, selects and presses            *)

Korean == Content("EUC-KR", {"euc_kr", "cp949", "latin_1"}, {1, 2})

Unreadable == Content(Null, {}, {})

MainUploads ==
    { Upload("a.csv", Content("ascii", Codecs, {1}), "", "ok"),
      Upload("b.csv", Korean, "UnicodeDecodeError", "ok"),
      Upload("b.csv", Korean, "UnicodeDecodeError", "write_fails"),
      Upload("c.csv", Unreadable, "UnicodeDecodeError", "ok"),
      Upload("c.csv", Unreadable, "EmptyDataError", "ok") }

\* get_sample_data_info().keys()
SampleNames == {"sales_data", "marketing_campaign", "customer_satisfaction"}

Inputs ==
    { i \in [api_key : BOOLEAN, upload : MainUploads \cup {NoUpload},
             sample : SampleNames \cup {NoSample}, button : BOOLEAN] :
        i.upload # NoUpload => i.sample = NoSample }

Names == {"a.csv", "b.csv", "c.csv"}

Paths == {TempPath(n) : n \in Names}

Loads == 1..NLoads

EmptyDir == [p \in Paths |-> NoFile]

NoCall == [fn |-> "none"]

NoRet == [result |-> "none"]

Init ==
    /\ pc = "start"
    /\ input \in Inputs
    /\ df = NoDf
    /\ story_result = NoStory
    /\ idx = 0
    /\ out = <<>>
    /\ posts = 0
    /\ analyses = 0
    /\ call = NoCall
    /\ ret = NoRet
    /\ fs \in {EmptyDir, [EmptyDir EXCEPT ![TempPath("b.csv")] = File(0, Korean)]}
    /\ load = [p \in Loads |-> Idle]

Next ==
    \/ Load
    \/ Analyze
    \/ SkipPipeline
    \/ Request
    \/ RenderHeader
    \/ RenderInsight
    \/ RenderNarrative
    \/ RenderActions

Spec == Init /\ [][Next]_vars


----------------------------------------------------------------------------
(* Direct calls of create_chart, generate_data_story and                   *)
(* load_csv_with_encoding on arguments drawn from bounded sets             *)

TypeValues == {Absent, Null, Num, "bar", "line", "scatter", "pie", "heatmap", "HeatMap", "unknown_type"}

ColumnValues == {Absent, Null, "", Num, List, "nonexistent"} \cup Columns(ColIds)

TitleValues == {Absent, "t"}

ChartInfos == [type : TypeValues, x_column : ColumnValues, y_column : ColumnValues, title : TitleValues]

NoResponse == Response("none", 0, Null, Absent, Null, Absent, Absent, NoStory)

\* lib is what the plotting library does when a rendering routine calls it
Call(fn, d, chart_info, lib, api_key, response, content) ==
    [fn |-> fn, d |-> d, chart_info |-> chart_info, lib |-> lib, api_key |-> api_key,
     response |-> response, content |-> content]

Calls ==
    { Call("create_chart", d, c, lib, FALSE, NoResponse, NoContent) :
        d \in Datasets, c \in ChartInfos, lib \in {"ok", "raise"} }
    \cup { Call("generate_data_story", {}, NoChart, "ok", k, r, NoContent) : k \in BOOLEAN, r \in Responses }
    \cup { Call("load_csv_with_encoding", {}, NoChart, "ok", FALSE, NoResponse, c) : c \in Contents }

InitCall ==
    /\ pc = "call"
    /\ call \in Calls
    /\ ret = NoRet
    /\ input = CHOOSE i \in Inputs : i.upload = NoUpload /\ i.sample = NoSample /\ ~i.button /\ ~i.api_key
    /\ df = NoDf
    /\ story_result = NoStory
    /\ idx = 0
    /\ out = <<>>
    /\ posts = 0
    /\ analyses = 0
    /\ fs = EmptyDir
    /\ load = [p \in Loads |-> Idle]

Return(r) ==
    /\ ret' = r
    /\ pc' = "returned"
    /\ UNCHANGED <<input, df, story_result, idx, out, posts, analyses, call, fs, load>>

CallCreateChart ==
    /\ pc = "call"
    /\ call.fn = "create_chart"
    /\ Return(create_chart(call.d, call.chart_info, call.lib))

CallGenerateDataStory ==
    /\ pc = "call"
    /\ call.fn = "generate_data_story"
    /\ Return(generate_data_story(call.api_key, call.response))

CallLoadCsvWithEncoding ==
    /\ pc = "call"
    /\ call.fn = "load_csv_with_encoding"
    /\ Return(load_csv_with_encoding(call.content))

NextCall ==
    \/ CallCreateChart
    \/ CallGenerateDataStory
    \/ CallLoadCsvWithEncoding

SpecCall == InitCall /\ [][NextCall]_vars

----------------------------------------------------------------------------
(* load_uploaded_file operations running in the sessions of the server,    *)
(* one statement at a time                                                 *)

LoadUploads ==
    { Upload(n, c, "UnicodeDecodeError", w) :
        n \in {"b.csv", "c.csv"},
        c \in {Korean, Unreadable},
        w \in {"ok", "open_fails", "write_fails"} }

InitLoad ==
    /\ pc = "load"
    /\ fs \in {EmptyDir, [EmptyDir EXCEPT ![TempPath("b.csv")] = File(0, Korean)]}
    /\ load = [p \in Loads |-> Idle]
    /\ call = NoCall
    /\ ret = NoRet
    /\ input = CHOOSE i \in Inputs : i.upload = NoUpload /\ i.sample = NoSample /\ ~i.button /\ ~i.api_key
    /\ df = NoDf
    /\ story_result = NoStory
    /\ idx = 0
    /\ out = <<>>
    /\ posts = 0
    /\ analyses = 0

\* a session calls load_uploaded_file(uploaded_file)
StartLoad(p) ==
    /\ load[p].at = "idle"
    /\ \E u \in LoadUploads : load' = [load EXCEPT ![p] = LoadState("open", u, NoDf, "")]
    /\ UNCHANGED <<pc, input, df, story_result, idx, out, posts, analyses, call, ret, fs>>

\* the operation executes its next statement
LoadStep(p) ==
    /\ ~LoadDone(load[p])
    /\ LET s == StepLoad(p, load[p], fs)
       IN  /\ load' = [load EXCEPT ![p] = s.l]
           /\ fs' = s.fs
    /\ UNCHANGED <<pc, input, df, story_result, idx, out, posts, analyses, call, ret>>

NextLoad == \E p \in Loads : StartLoad(p) \/ LoadStep(p)

SpecLoad == InitLoad /\ [][NextLoad]_vars


----------------------------------------------------------------------------
(* prompts.generate_data_story_prompt                                      *)
(*                                                                         *)
(* A coefficient is a float: a number in hundredths, or nan.  A dict of    *)
(* dicts over the same keys (the "correlation" of an analysis) is the list *)
(* of its keys in iteration order and the value at each pair of positions; *)
(* kind tells a missing key ("absent") and a value that is not a dict      *)
(* ("null") from a dict.  The keys of the three lookup tables stand for    *)
(* the Korean keys of lines 88-91, 96-99 and 104-106, in their order.      *)

Coef(v) == [nan |-> FALSE, v |-> v]

NaN == [nan |-> TRUE, v |-> 0]

Abs(n) == IF n < 0 THEN -n ELSE n

Max(S) == CHOOSE m \in S : \A n \in S : m >= n

\* abs(val) >= t, which is False for nan
AbsGe(c, t) == ~c.nan /\ Abs(c.v) >= t

\* 0.5 in hundredths
HighCorrelation == 50

TopCategories == 3

SampleRows == 5

\* dict(list(d.items())[:n])
Take(s, n) == SubSeq(s, 1, Min({n, Len(s)}))

Matrix(kind, cols, val) == [kind |-> kind, cols |-> cols, val |-> val]

NoMatrix(kind) == Matrix(kind, <<>>, <<>>)

\* the loop without the comparison of the two names, letting nan through
HighCorrelationsUnfiltered(corr) ==
    LET n == Len(corr.cols)
        cell(k) == LET i == ((k - 1) \div n) + 1
                       j == ((k - 1) % n) + 1
                   IN  [column1 |-> corr.cols[i], column2 |-> corr.cols[j],
                        correlation |-> corr.val[<<i, j>>]]
        high(e) == e.correlation.nan \/ Abs(e.correlation.v) >= HighCorrelation
    IN  SelectSeq([k \in 1..(n * n) |-> cell(k)], high)

\* the loop over the pairs above the diagonal only
HighCorrelationsUpper(corr) ==
    LET n == Len(corr.cols)
        cell(k) == LET i == ((k - 1) \div n) + 1
                       j == ((k - 1) % n) + 1
                   IN  [column1 |-> corr.cols[i], column2 |-> corr.cols[j],
                        correlation |-> corr.val[<<i, j>>], above |-> i < j]
        high(e) == e.above /\ AbsGe(e.correlation, HighCorrelation)
        entry(e) == [column1 |-> e.column1, column2 |-> e.column2,
                     correlation |-> e.correlation]
        kept == SelectSeq([k \in 1..(n * n) |-> cell(k)], high)
    IN  [k \in 1..Len(kept) |-> entry(kept[k])]

\* lines 58-69: the loop over corr_data.items() and corr_vals.items()
HighCorrelations(corr) ==
    LET n == Len(corr.cols)
        cell(k) == LET i == ((k - 1) \div n) + 1
                       j == ((k - 1) % n) + 1
                   IN  [column1 |-> corr.cols[i], column2 |-> corr.cols[j],
                        correlation |-> corr.val[<<i, j>>]]
        high(e) == e.column1 # e.column2 /\ AbsGe(e.correlation, HighCorrelation)
    IN  SelectSeq([k \in 1..(n * n) |-> cell(k)], high)

\* an analysis: numeric_stats and categorical_stats are dicts keyed by column
Info(basic_info, numeric_stats, categorical_stats, correlation) ==
    [basic_info |-> basic_info, numeric_stats |-> numeric_stats,
     categorical_stats |-> categorical_stats, correlation |-> correlation]

\* lines 35-53: categorical entries are written after the numeric ones
ColumnSummary(info) ==
    [c \in DOMAIN info.numeric_stats \cup DOMAIN info.categorical_stats |->
        IF c \in DOMAIN info.categorical_stats
        THEN [type |-> "categorical", mean |-> 0, min |-> 0, max |-> 0,
              top_categories |-> Take(info.categorical_stats[c], TopCategories)]
        ELSE [type |-> "numeric", mean |-> info.numeric_stats[c].mean,
              min |-> info.numeric_stats[c].min, max |-> info.numeric_stats[c].max,
              top_categories |-> <<>>]]

\* lines 25-72; has_high tells whether the key "high_correlations" is present
SimplifiedInfo(info) ==
    LET high == IF info.correlation.kind = "dict"
                THEN HighCorrelations(info.correlation) ELSE <<>>
    IN  [basic_info |-> info.basic_info,
         column_summary |-> ColumnSummary(info),
         has_high |-> high # <<>>,
         high_correlations |-> high]

\* sample_data: kind as above, rows the row labels of each column in order
Sample(kind, rows) == [kind |-> kind, rows |-> rows]

\* a sample block that keeps every row
SimplifiedSampleWhole(sample_data) ==
    IF sample_data.kind # "dict" THEN << >>
    ELSE [c \in DOMAIN sample_data.rows |-> sample_data.rows[c]]

\* lines 78-82
SimplifiedSample(sample_data) ==
    IF sample_data.kind # "dict" THEN << >>
    ELSE [c \in DOMAIN sample_data.rows |-> Take(sample_data.rows[c], SampleRows)]

audience_characteristics ==
    [a \in {"executive", "marketing", "technical", "general"} |-> "audience_" \o a]

focus_instructions ==
    [f \in {"trends", "anomalies", "correlations", "holistic"} |-> "focus_" \o f]

length_instructions ==
    [l \in {"brief", "normal", "detailed"} |-> "length_" \o l]

\* a lookup that answers an unknown key with an entry of the table
DictGetAny(table, key, default) ==
    IF key \in DOMAIN table THEN table[key] ELSE table[CHOOSE k \in DOMAIN table : TRUE]

\* dict.get(key, default)
DictGet(table, key, default) ==
    IF key \in DOMAIN table THEN table[key] ELSE default

\* the rendered template: the value named in its first sentence, the three
\* fragments, the summary and the sample block
generate_data_story_prompt(dataframe_info, audience, focus, length, sample_data) ==
    [result |-> "prompt",
     named |-> audience,
     audience |-> DictGet(audience_characteristics, audience, "generic_reader"),
     focus |-> DictGet(focus_instructions, focus, "generic_focus"),
     length |-> DictGet(length_instructions, length, "generic_length"),
     info |-> SimplifiedInfo(dataframe_info),
     sample |-> SimplifiedSample(sample_data)]

----------------------------------------------------------------------------
(* Datasets with rows, for the profiler and the analysis routines of       *)
(* utils.py                                                                *)
(*                                                                         *)
(* A column is its dtype, its cells (integers: the numbers of a numeric    *)
(* column, the months of a date column, category codes otherwise),         *)
(* the set of rows whose cell is missing (NaN, NaT or None), and whether   *)
(* pd.to_datetime accepts its cells.  A frame is its number of rows and    *)
(* its columns by name; column names are unique.  Every routine is given   *)
(* as the pair of what it returns and what the caller's dataset is after   *)
(* the call.                                                               *)

Col(dtype, cells, null, parses) ==
    [dtype |-> dtype, cells |-> cells, null |-> null, parses |-> parses]

Frame(rows, cols) == [rows |-> rows, cols |-> cols]

Outcome(value, d) == [value |-> value, df |-> d]

\* select_dtypes(include=['int64', 'float64'])
NumericSelect(f) == {c \in DOMAIN f.cols : f.cols[c].dtype \in {"int64", "float64"}}

\* select_dtypes(include=['object', 'category'])
CategoricalSelect(f) == {c \in DOMAIN f.cols : f.cols[c].dtype \in {"object", "category"}}

\* pd.api.types.is_numeric_dtype
IsNumericDtype(t) == t \in {"int64", "float64", "bool"}

\* a profile that lists only the columns with missing cells
MissingValuesWithoutZeros(f) ==
    [c \in {k \in DOMAIN f.cols : f.cols[k].null # {}} |-> Cardinality(f.cols[c].null)]

\* df.isnull().sum().to_dict()
MissingValues(f) == [c \in DOMAIN f.cols |-> Cardinality(f.cols[c].null)]

\* src/app.py lines 103-143; the statistics themselves are floats (nan for a
\* column without values) and are not part of the model
analyze_dataframe(f) ==
    Outcome([result |-> "value",
             basic_info |-> [rows |-> f.rows, columns |-> Cardinality(DOMAIN f.cols),
                             column_types |-> [c \in DOMAIN f.cols |-> f.cols[c].dtype]],
             numeric_stats |-> NumericSelect(f),
             has_correlation |-> Cardinality(NumericSelect(f)) > 1,
             categorical_stats |-> CategoricalSelect(f),
             missing_values |-> MissingValues(f)],
            f)

----------------------------------------------------------------------------
(* utils.detect_anomalies                                                  *)
(*                                                                         *)
(* Quartiles are in quarters of a unit, the bounds in eighths, and the     *)
(* threshold is given in halves (3 is the default 1.5), so that the        *)
(* arithmetic of the routine is exact.                                     *)

\* the row numbers of I in ascending order of their cells
RECURSIVE SortRows(_, _)
SortRows(cells, I) ==
    IF I = {} THEN << >>
    ELSE LET i == CHOOSE k \in I :
                     \A j \in I : cells[k] < cells[j] \/ (cells[k] = cells[j] /\ k <= j)
         IN  <<i>> \o SortRows(cells, I \ {i})

\* the cells that are present, in ascending order
SortedValues(col) ==
    LET rows == SortRows(col.cells, (1..Len(col.cells)) \ col.null)
    IN  [k \in 1..Len(rows) |-> col.cells[rows[k]]]

\* Series.quantile(a / 4) by linear interpolation, in quarters; nan when
\* there is no value
Quantile(x, a) ==
    IF Len(x) = 0 THEN NaN
    ELSE LET pos == a * (Len(x) - 1)
             lo == (pos \div 4) + 1
             r == pos % 4
         IN  Coef(IF r = 0 THEN 4 * x[lo] ELSE 4 * x[lo] + r * (x[lo + 1] - x[lo]))

AnomalyLimit == 10

\* rows of I in ascending order
RECURSIVE RowList(_)
RowList(I) ==
    IF I = {} THEN << >>
    ELSE LET i == Min(I) IN <<i>> \o RowList(I \ {i})

AnomalyError(error) ==
    [result |-> "error", exc |-> "", error |-> error, method |-> "", threshold |-> 0,
     has_bounds |-> FALSE, lower_bound |-> NaN, upper_bound |-> NaN,
     has_count |-> FALSE, anomaly_count |-> 0, anomaly_percent |-> <<0, 1>>,
     anomalies |-> << >>, anomalies_null |-> FALSE, has_note |-> FALSE]

AnomalyRaise(exc) == [AnomalyError("") EXCEPT !.result = "raise", !.exc = exc]

\* an anomaly list without its cap
AnomalyResultUncapped(method, threshold, rows, flagged) ==
    [AnomalyError("") EXCEPT
        !.result = "value", !.method = method, !.threshold = threshold,
        !.has_count = TRUE,
        !.anomaly_count = Cardinality(flagged),
        !.anomaly_percent = <<100 * Cardinality(flagged), rows>>,
        !.anomalies = RowList(flagged)]

\* lines 323-327 and the result.update of either method; anomaly_percent is
\* the fraction 100 * count / rows
AnomalyResult(method, threshold, rows, flagged) ==
    [AnomalyError("") EXCEPT
        !.result = "value", !.method = method, !.threshold = threshold,
        !.has_count = TRUE,
        !.anomaly_count = Cardinality(flagged),
        !.anomaly_percent = <<100 * Cardinality(flagged), rows>>,
        !.anomalies = IF Cardinality(flagged) <= AnomalyLimit THEN RowList(flagged) ELSE << >>,
        !.anomalies_null = ~(Cardinality(flagged) <= AnomalyLimit),
        !.has_note = Cardinality(flagged) > AnomalyLimit]

\* flagging that takes in the rows on the bounds
IqrFlaggedInclusive(col, threshold) ==
    LET x == SortedValues(col)
        Q1 == Quantile(x, 1)
        Q3 == Quantile(x, 3)
    IN  IF Q1.nan THEN {}
        ELSE {i \in (1..Len(col.cells)) \ col.null :
                \/ 8 * col.cells[i] <= 2 * Q1.v - threshold * (Q3.v - Q1.v)
                \/ 8 * col.cells[i] >= 2 * Q3.v + threshold * (Q3.v - Q1.v)}

\* lines 330-337: a comparison with nan is False
IqrFlagged(col, threshold) ==
    LET x == SortedValues(col)
        Q1 == Quantile(x, 1)
        Q3 == Quantile(x, 3)
    IN  IF Q1.nan THEN {}
        ELSE {i \in (1..Len(col.cells)) \ col.null :
                \/ 8 * col.cells[i] < 2 * Q1.v - threshold * (Q3.v - Q1.v)
                \/ 8 * col.cells[i] > 2 * Q3.v + threshold * (Q3.v - Q1.v)}

\* lines 334-335, in eighths
IqrBounds(col, threshold) ==
    LET x == SortedValues(col)
        Q1 == Quantile(x, 1)
        Q3 == Quantile(x, 3)
    IN  IF Q1.nan THEN <<NaN, NaN>>
        ELSE <<Coef(2 * Q1.v - threshold * (Q3.v - Q1.v)),
               Coef(2 * Q3.v + threshold * (Q3.v - Q1.v))>>

\* lines 352-353: |x - mean| / std > threshold with the population standard
\* deviation; every score is nan when a cell is missing or the deviation is 0
ZscoreFlagged(col, threshold) ==
    LET n == Len(col.cells)
        Sum[k \in 0..n] == IF k = 0 THEN 0 ELSE Sum[k - 1] + col.cells[k]
        d(i) == n * col.cells[i] - Sum[n]
        Sq[k \in 0..n] == IF k = 0 THEN 0 ELSE Sq[k - 1] + d(k) * d(k)
    IN  IF col.null # {} \/ n = 0 \/ Sq[n] = 0 THEN {}
        ELSE IF threshold < 0 THEN 1..n
        ELSE {i \in 1..n : 4 * n * d(i) * d(i) > threshold * threshold * Sq[n]}

\* scipy tells whether "from scipy import stats" succeeds
detect_anomalies(f, column, method, threshold, scipy) ==
    IF column \notin DOMAIN f.cols
    THEN Outcome(AnomalyError("missing_column"), f)
    ELSE IF ~IsNumericDtype(f.cols[column].dtype)
    THEN Outcome(AnomalyError("not_numeric"), f)
    ELSE IF method = "iqr"
    THEN IF f.rows = 0
         THEN Outcome(AnomalyRaise("ZeroDivisionError"), f)          \* line 343
         ELSE Outcome([AnomalyResult(method, threshold, f.rows, IqrFlagged(f.cols[column], threshold))
                          EXCEPT !.has_bounds = TRUE,
                                 !.lower_bound = IqrBounds(f.cols[column], threshold)[1],
                                 !.upper_bound = IqrBounds(f.cols[column], threshold)[2]], f)
    ELSE IF method = "zscore"
    THEN IF ~scipy
         THEN Outcome(AnomalyRaise("ImportError"), f)                \* line 351
         ELSE IF f.rows = 0
         THEN Outcome(AnomalyRaise("ZeroDivisionError"), f)          \* line 357
         ELSE Outcome(AnomalyResult(method, threshold, f.rows, ZscoreFlagged(f.cols[column], threshold)), f)
    ELSE Outcome([AnomalyError("") EXCEPT !.result = "value", !.method = method,
                                          !.threshold = threshold], f)

----------------------------------------------------------------------------
(* utils.identify_trends                                                   *)
(*                                                                         *)
(* The cells of a date column count months from an origin (cell 1 is a     *)
(* January).  What scipy.stats.linregress answers is given from outside:   *)
(* it raises, or it returns a slope, r in hundredths and p in thousandths, *)
(* each of which may be nan.  Directions and strengths stand for the       *)
(* Korean words of lines 228-238 and 249-250.                              *)

Regress(kind, slope, r_value, p_value) ==
    [kind |-> kind, slope |-> slope, r_value |-> r_value, p_value |-> p_value]

\* 0.05 in thousandths
Significance == 50

\* 0.7 and 0.4 in hundredths
StrongR == 70

ModerateR == 40

MinTrendRows == 3

SeasonRows == 12

\* 1 / 0.2
SeasonalityInverse == 5

\* a classification whose strong band starts at 0.7
ClassifyInclusive(reg) ==
    IF ~reg.p_value.nan /\ reg.p_value.v < Significance
    THEN [kind |-> "regression",
          direction |-> IF ~reg.slope.nan /\ reg.slope.v > 0 THEN "up" ELSE "down",
          strength |-> IF AbsGe(reg.r_value, StrongR) THEN "strong"
                       ELSE IF AbsGe(reg.r_value, ModerateR) THEN "moderate"
                       ELSE "weak"]
    ELSE [kind |-> "regression", direction |-> "unclear", strength |-> "insignificant"]

\* abs(val) > t, which is False for nan
AbsGt(c, t) == ~c.nan /\ Abs(c.v) > t

\* lines 226-254
Classify(reg) ==
    IF ~reg.p_value.nan /\ reg.p_value.v < Significance
    THEN [kind |-> "regression",
          direction |-> IF ~reg.slope.nan /\ reg.slope.v > 0 THEN "up" ELSE "down",
          strength |-> IF AbsGt(reg.r_value, StrongR) THEN "strong"
                       ELSE IF AbsGt(reg.r_value, ModerateR) THEN "moderate"
                       ELSE "weak"]
    ELSE [kind |-> "regression", direction |-> "unclear", strength |-> "insignificant"]

\* lines 258-271: the first and the last value in date order; a comparison
\* with a missing value is False; no strength is reported
Fallback(dates, values) ==
    LET order == SortRows(dates.cells, 1..Len(dates.cells))
        first == order[1]
        last == order[Len(order)]
    IN  [kind |-> "fallback",
         direction |-> IF /\ {first, last} \cap values.null = {}
                          /\ values.cells[last] > values.cells[first]
                       THEN "up" ELSE "down",
         strength |-> Absent]

\* Series.dt.month
Month(t) == ((t - 1) % 12) + 1

NoSeasonality == [exists |-> Absent, peak_month |-> 0, lowest_month |-> 0]

RECURSIVE SumCells(_, _)
SumCells(cells, I) ==
    IF I = {} THEN 0
    ELSE LET i == Min(I) IN cells[i] + SumCells(cells, I \ {i})

RECURSIVE SumOver(_, _)
SumOver(fn, M) ==
    IF M = {} THEN 0
    ELSE LET m == Min(M) IN fn[m] + SumOver(fn, M \ {m})

RECURSIVE ProductOver(_, _)
ProductOver(fn, M) ==
    IF M = {} THEN 1
    ELSE LET m == Min(M) IN fn[m] * ProductOver(fn, M \ {m})

\* lines 277-300 with the share of the average written as 1 / inverse; the
\* monthly means are compared after multiplying each by the product of the
\* group sizes
SeasonalityWith(dates, values, inverse) ==
    LET rows == (1..Len(values.cells)) \ (values.null \cup dates.null)
        months == {Month(dates.cells[i]) : i \in rows}
        count == [m \in months |-> Cardinality({i \in rows : Month(dates.cells[i]) = m})]
        total == [m \in months |->
                    SumCells(values.cells, {i \in rows : Month(dates.cells[i]) = m})]
        mean == [m \in months |-> total[m] * (ProductOver(count, months) \div count[m])]
        max_month == CHOOSE m \in months :
                        \A k \in months : mean[m] > mean[k] \/ (mean[m] = mean[k] /\ m <= k)
        min_month == CHOOSE m \in months :
                        \A k \in months : mean[m] < mean[k] \/ (mean[m] = mean[k] /\ m <= k)
    IN  IF months = {}
        THEN [NoSeasonality EXCEPT !.exists = "unknown"]
        ELSE IF inverse * Cardinality(months) * (mean[max_month] - mean[min_month])
                    > SumOver(mean, months)
        THEN [exists |-> "true", peak_month |-> max_month, lowest_month |-> min_month]
        ELSE [NoSeasonality EXCEPT !.exists = "false"]

\* a test against half of the average
SeasonalityOfHalf(dates, values) == SeasonalityWith(dates, values, 2)

Seasonality(dates, values) == SeasonalityWith(dates, values, SeasonalityInverse)

TrendError(error) ==
    [result |-> "error", exc |-> "", error |-> error,
     overall_trend |-> [kind |-> "none", direction |-> Absent, strength |-> Absent],
     regress |-> Regress("none", NaN, NaN, NaN),
     has_seasonality |-> FALSE, seasonality |-> NoSeasonality]

TrendRaise(exc) == [TrendError("") EXCEPT !.result = "raise", !.exc = exc]

DatetimeDtype == "datetime64[ns]"

\* line 198: df[date_column] = pd.to_datetime(df[date_column])
Convert(f, date_column) ==
    [f EXCEPT !.cols[date_column].dtype = DatetimeDtype]

\* scipy tells whether "import scipy.stats" succeeds, reg what linregress does
identify_trends(f, date_column, value_column, scipy, reg) ==
    IF date_column \notin DOMAIN f.cols
    THEN Outcome(TrendRaise("KeyError"), f)                              \* line 196
    ELSE IF f.cols[date_column].dtype # DatetimeDtype /\ ~f.cols[date_column].parses
    THEN Outcome(TrendError("date_format"), f)                           \* line 200
    ELSE LET d == IF f.cols[date_column].dtype # DatetimeDtype
                  THEN Convert(f, date_column) ELSE f
         IN  IF d.rows < MinTrendRows
             THEN Outcome(TrendError("not_enough_data"), d)              \* line 210
             ELSE IF value_column \notin DOMAIN d.cols
             THEN Outcome(TrendRaise("KeyError"), d)                     \* line 258
             ELSE IF d.cols[value_column].dtype \notin {"int64", "float64"}
             THEN Outcome(TrendRaise("TypeError"), d)                    \* lines 263, 266
             ELSE Outcome(
                    [TrendError("") EXCEPT
                       !.result = "value",
                       !.overall_trend =
                           IF scipy /\ reg.kind = "ok" THEN Classify(reg)
                           ELSE Fallback(d.cols[date_column], d.cols[value_column]),
                       !.regress = IF scipy /\ reg.kind = "ok" THEN reg ELSE @,
                       !.has_seasonality = d.rows >= SeasonRows,
                       !.seasonality =
                           IF d.rows >= SeasonRows
                           THEN Seasonality(d.cols[date_column], d.cols[value_column])
                           ELSE NoSeasonality],
                    d)

----------------------------------------------------------------------------
(* data_loader.clean_data                                                  *)
(*                                                                         *)
(* The cleaned dataset holds means and quartile bounds, so the cells of    *)
(* its numeric columns are given in units of 1 / scale, scale being eight  *)
(* times the number of values of the column.                               *)

\* 'date' in col.lower()
DateNames == {"date", "Date", "order_date"}

\* 1.5 in halves
ClipThreshold == 3

CleanScale(col) == 8 * Max({1, Len(col.cells) - Cardinality(col.null)})

\* lines 114-119
CleanDates(f) ==
    [f EXCEPT !.cols = [c \in DOMAIN f.cols |->
        IF c \in DateNames /\ f.cols[c].parses
        THEN [f.cols[c] EXCEPT !.dtype = DatetimeDtype] ELSE f.cols[c]]]

\* the numeric cells in units of 1 / scale
Rescale(f) ==
    [f EXCEPT !.cols = [c \in DOMAIN f.cols |->
        IF c \in NumericSelect(f)
        THEN [f.cols[c] EXCEPT !.cells = [i \in 1..Len(@) |-> CleanScale(f.cols[c]) * @[i]]]
        ELSE f.cols[c]]]

\* Series.mode()[0]: the most frequent value, the smallest of them on a tie
Mode(col) ==
    LET rows == (1..Len(col.cells)) \ col.null
        times(v) == Cardinality({i \in rows : col.cells[i] = v})
    IN  CHOOSE v \in {col.cells[i] : i \in rows} :
            \A w \in {col.cells[i] : i \in rows} :
                times(v) > times(w) \/ (times(v) = times(w) /\ v <= w)

\* lines 127-128 on the rescaled column: the mean is the sum of the values
\* over their number
FillMean(col) ==
    LET rows == (1..Len(col.cells)) \ col.null
    IN  IF rows = {} THEN col
        ELSE [col EXCEPT !.null = {},
                         !.cells = [i \in 1..Len(@) |->
                            IF i \in col.null
                            THEN SumCells(col.cells, rows) \div Cardinality(rows)
                            ELSE @[i]]]

\* lines 131-137
FillMode(col) ==
    IF col.null = {} \/ col.null = 1..Len(col.cells) THEN col
    ELSE [col EXCEPT !.null = {},
                     !.cells = [i \in 1..Len(@) |-> IF i \in col.null THEN Mode(col) ELSE @[i]]]

\* lines 122-137
HandleMissing(f) ==
    [f EXCEPT !.cols = [c \in DOMAIN f.cols |->
        IF c \in NumericSelect(f) THEN FillMean(f.cols[c])
        ELSE IF c \in CategoricalSelect(f) THEN FillMode(f.cols[c])
        ELSE f.cols[c]]]

\* lines 143-150: the values below the lower bound become the bound, those
\* above the upper bound become the upper bound
Clip(col) ==
    LET b == IqrBounds(col, ClipThreshold)
    IN  IF b[1].nan THEN col
        ELSE [col EXCEPT !.cells = [i \in 1..Len(@) |->
                IF i \in col.null THEN @[i]
                ELSE IF 8 * @[i] < b[1].v THEN b[1].v \div 8
                ELSE IF 8 * @[i] > b[2].v THEN b[2].v \div 8
                ELSE @[i]]]

\* lines 140-150
HandleOutliers(f) ==
    [f EXCEPT !.cols = [c \in DOMAIN f.cols |->
        IF c \in NumericSelect(f) THEN Clip(f.cols[c]) ELSE f.cols[c]]]

\* the work is done on cleaned_df = df.copy()
clean_data(f, handle_missing, handle_outliers) ==
    LET copy == Rescale(CleanDates(f))
        filled == IF handle_missing THEN HandleMissing(copy) ELSE copy
        clipped == IF handle_outliers THEN HandleOutliers(filled) ELSE filled
    IN  Outcome([result |-> "df", df |-> clipped,
                 scale |-> [c \in NumericSelect(CleanDates(f)) |-> CleanScale(f.cols[c])]],
                f)

----------------------------------------------------------------------------
(* utils.identify_correlations                                             *)
(*                                                                         *)
(* corr is what numeric_df.corr() answers: a matrix over the numeric       *)
(* columns.                                                                *)

\* the cells on both sides of the diagonal
StrongCorrelationsBothWays(corr, threshold) ==
    LET n == Len(corr.cols)
        row(k) == ((k - 1) \div n) + 1
        column(k) == ((k - 1) % n) + 1
        cell(k) == [column1 |-> corr.cols[row(k)], column2 |-> corr.cols[column(k)],
                    correlation |-> corr.val[<<row(k), column(k)>>]]
        off == SelectSeq([k \in 1..(n * n) |-> k], LAMBDA k : row(k) # column(k))
        strong(e) == AbsGe(e.correlation, threshold)
    IN  SelectSeq([k \in 1..Len(off) |-> cell(off[k])], strong)

\* lines 169-176: the cells above the diagonal, row by row
StrongCorrelations(corr, threshold) ==
    LET n == Len(corr.cols)
        row(k) == ((k - 1) \div n) + 1
        column(k) == ((k - 1) % n) + 1
        cell(k) == [column1 |-> corr.cols[row(k)], column2 |-> corr.cols[column(k)],
                    correlation |-> corr.val[<<row(k), column(k)>>]]
        above == SelectSeq([k \in 1..(n * n) |-> k], LAMBDA k : row(k) < column(k))
        strong(e) == AbsGe(e.correlation, threshold)
    IN  SelectSeq([k \in 1..Len(above) |-> cell(above[k])], strong)

\* line 179: list.sort(key=abs, reverse=True) keeps the order of equal keys
RECURSIVE SortByAbs(_)
SortByAbs(s) ==
    IF s = << >> THEN << >>
    ELSE LET k == CHOOSE i \in 1..Len(s) :
                     \A j \in 1..Len(s) :
                        \/ Abs(s[i].correlation.v) > Abs(s[j].correlation.v)
                        \/ (Abs(s[i].correlation.v) = Abs(s[j].correlation.v) /\ i <= j)
         IN  <<s[k]>> \o SortByAbs(SubSeq(s, 1, k - 1) \o SubSeq(s, k + 1, Len(s)))

identify_correlations(f, threshold, corr) ==
    IF Cardinality(NumericSelect(f)) < 2
    THEN Outcome([result |-> "value", pairs |-> << >>], f)
    ELSE Outcome([result |-> "value", pairs |-> SortByAbs(StrongCorrelations(corr, threshold))], f)

----------------------------------------------------------------------------
(* Direct calls of generate_data_story_prompt                              *)

CoefValues == {Coef(-50), Coef(0), Coef(49), Coef(50), NaN}

CorrNames == <<"sales", "units", "price", "cost", "margin">>

\* coefficients on the threshold, under it, and nan
SymmetricValues == {Coef(-50), Coef(49), NaN}

\* what DataFrame.corr().to_dict() gives for n numeric columns: symmetric,
\* with 1.0 on the diagonal
SymmetricMatrices(n) ==
    LET upper == {p \in (1..n) \X (1..n) : p[1] < p[2]}
    IN  { Matrix("dict", SubSeq(CorrNames, 1, n),
                 [p \in (1..n) \X (1..n) |->
                    IF p[1] = p[2] THEN Coef(100) ELSE u[<<Min({p[1], p[2]}), Max({p[1], p[2]})>>]]) :
            u \in [upper -> SymmetricValues] }

\* any dict of dicts over two keys
SquareMatrices ==
    { Matrix("dict", SubSeq(CorrNames, 1, 2), v) :
        v \in [(1..2) \X (1..2) -> CoefValues \cup {Coef(100)}] }

Matrices ==
    {NoMatrix("absent"), NoMatrix("null")} \cup SquareMatrices
    \cup UNION { SymmetricMatrices(n) : n \in 2..MaxCorrCols }

Stats == [mean |-> 2, median |-> 2, min |-> 1, max |-> 3, std |-> 1]

BasicInfo == [rows |-> 3, columns |-> 2]

InfoOf(m, cats) ==
    Info(BasicInfo, [c \in {m.cols[i] : i \in 1..Len(m.cols)} |-> Stats],
         [c \in {"region"} |-> cats], m)

Categories == <<"east", "west", "north", "south", "centre">>

PromptInfos ==
    { InfoOf(m, Categories) : m \in Matrices }
    \cup { InfoOf(NoMatrix("absent"), SubSeq(Categories, 1, k)) : k \in 0..Len(Categories) }

\* df.head(10)
HeadRows == 10

\* df.head(10).to_dict() of a dataset of k rows
SampleOf(k) == Sample("dict", [c \in {"region", "sales"} |-> [i \in 1..Min({k, HeadRows}) |-> i - 1]])

\* a sample of more rows than main supplies
LongSample == Sample("dict", [c \in {"region", "sales"} |-> [i \in 1..(HeadRows + 2) |-> i - 1]])

Samples == {Sample("null", << >>), LongSample} \cup { SampleOf(k) : k \in 0..(HeadRows + 1) }

AudienceValues == DOMAIN audience_characteristics \cup {"", "students", Null}

FocusValues == DOMAIN focus_instructions \cup {"", Null}

LengthValues == DOMAIN length_instructions \cup {"long", Null}

PromptCall(dataframe_info, audience, focus, length, sample_data) ==
    [fn |-> "generate_data_story_prompt", dataframe_info |-> dataframe_info,
     audience |-> audience, focus |-> focus, length |-> length, sample_data |-> sample_data]

PromptCalls ==
    { PromptCall(InfoOf(NoMatrix("absent"), Categories), a, f, l, SampleOf(3)) :
        a \in AudienceValues, f \in FocusValues, l \in LengthValues }
    \cup { PromptCall(i, "executive", "trends", "brief", SampleOf(3)) : i \in PromptInfos }
    \cup { PromptCall(InfoOf(NoMatrix("absent"), Categories), "general", "holistic", "normal", s) :
             s \in Samples }

InitPrompt ==
    /\ pc = "call"
    /\ call \in PromptCalls
    /\ ret = NoRet
    /\ input = CHOOSE i \in Inputs : i.upload = NoUpload /\ i.sample = NoSample /\ ~i.button /\ ~i.api_key
    /\ df = NoDf
    /\ story_result = NoStory
    /\ idx = 0
    /\ out = <<>>
    /\ posts = 0
    /\ analyses = 0
    /\ fs = EmptyDir
    /\ load = [p \in Loads |-> Idle]

CallGenerateDataStoryPrompt ==
    /\ pc = "call"
    /\ call.fn = "generate_data_story_prompt"
    /\ Return(generate_data_story_prompt(call.dataframe_info, call.audience, call.focus,
                                         call.length, call.sample_data))

NextPrompt == CallGenerateDataStoryPrompt

SpecPrompt == InitPrompt /\ [][NextPrompt]_vars

----------------------------------------------------------------------------
(* Direct calls of the profiler, clean_data and the routines of utils.py   *)
(* on datasets drawn from bounded sets; df is the caller's dataset         *)

CellValues == {1, 2, 9}

\* every column of at most MaxRows values
ValueLists == UNION { [1..n -> CellValues] : n \in 0..MaxRows }

Ramp(n) == [i \in 1..n |-> i]

\* n monthly observations, all of them b but those of month m, which are v
Seasonal(n, m, b, v) == [i \in 1..n |-> IF Month(i) = m THEN v ELSE b]

Example == <<1, 2, 3, 4, 5, 100>>

Ramps == { Ramp(n) : n \in {10, 11, 12, 20, 22} }

\* a dataset of one observation per month: a date column ("datetime" of
\* dtype datetime64, "text" strings that parse, "junk" strings that do not,
\* "none" no such column), the numbers and a column of labels
SeriesFrame(kind, values, null) ==
    LET n == Len(values)
        all == [c \in {"date", "sales", "region"} |->
                  CASE c = "date" -> Col(IF kind = "datetime" THEN DatetimeDtype ELSE "object",
                                         Ramp(n), {}, kind # "junk")
                    [] c = "sales" -> Col(IF null = {} THEN "int64" ELSE "float64",
                                          values, null, TRUE)
                    [] OTHER -> Col("object", [i \in 1..n |-> 1], {}, FALSE)]
    IN  Frame(n, [c \in (IF kind = "none" THEN {"sales", "region"}
                         ELSE {"date", "sales", "region"}) |-> all[c]])

NullSets(r) == {{}, {1} \cap (1..r), 1..r}

\* datasets of r rows with any of a date, a numeric, a text and a boolean
\* column, the numeric and the text column with no, one or only missing cells
ProfileFrames(r) ==
    { Frame(r, [c \in present |->
                  CASE c = "date" -> Col(IF date = "datetime" THEN DatetimeDtype ELSE "object",
                                         Ramp(r), {}, date # "junk")
                    [] c = "sales" -> Col(sales[1], [i \in 1..r |-> i * i], sales[2], TRUE)
                    [] c = "region" -> Col("object", [i \in 1..r |-> (i % 2) + 1], region, FALSE)
                    [] OTHER -> Col("bool", [i \in 1..r |-> i % 2], {}, FALSE)]) :
        date \in {"datetime", "text", "junk"},
        sales \in {<<"int64", {}>>} \cup { <<"float64", N>> : N \in NullSets(r) },
        region \in NullSets(r),
        present \in SUBSET {"date", "sales", "region", "active"} }

Frames == UNION { ProfileFrames(r) : r \in 0..MaxRows }

\* datasets of n numeric columns and a text column
CorrFrame(n) ==
    Frame(3, [c \in {CorrNames[i] : i \in 1..n} \cup {"region"} |->
                IF c = "region" THEN Col("object", Ramp(3), {}, FALSE)
                ELSE Col("float64", Ramp(3), {}, TRUE)])

Regressions ==
    {Regress("raise", NaN, NaN, NaN)}
    \cup { Regress("ok", s, r, p) :
             s \in {Coef(-1), Coef(0), Coef(1)},
             r \in {Coef(x) : x \in {-100, -71, -70, -41, -40, 0, 40, 41, 70, 71}} \cup {NaN},
             p \in {Coef(0), Coef(49), Coef(50), Coef(51), NaN} }

SomeRegressions == {Regress("raise", NaN, NaN, NaN), Regress("ok", Coef(1), Coef(71), Coef(0))}

AnalysisCalls ==
    { [fn |-> "analyze_dataframe", df |-> f] : f \in Frames }
    \cup { [fn |-> "clean_data", df |-> f, handle_missing |-> m, handle_outliers |-> o] :
             f \in Frames, m \in BOOLEAN, o \in BOOLEAN }
    \cup { [fn |-> "identify_correlations", df |-> CorrFrame(Len(m.cols)), threshold |-> t, corr |-> m] :
             m \in {NoMatrix("absent"), Matrix("dict", <<"sales">>, [p \in {<<1, 1>>} |-> Coef(100)])}
                   \cup UNION { SymmetricMatrices(n) : n \in 2..MaxCorrCols },
             t \in {0, HighCorrelation} }
    \cup { [fn |-> "detect_anomalies", df |-> SeriesFrame("datetime", v, {}), column |-> "sales",
            method |-> m, threshold |-> t, scipy |-> TRUE] :
             v \in ValueLists \cup Ramps \cup {Example}, m \in {"iqr", "zscore"}, t \in {0, 3} }
    \cup { [fn |-> "detect_anomalies", df |-> SeriesFrame("datetime", v, {1}), column |-> "sales",
            method |-> m, threshold |-> 3, scipy |-> TRUE] :
             v \in ValueLists \ {<< >>}, m \in {"iqr", "zscore"} }
    \cup { [fn |-> "detect_anomalies", df |-> SeriesFrame("datetime", v, {}), column |-> c,
            method |-> m, threshold |-> 3, scipy |-> s] :
             v \in {<< >>, <<1, 2, 9>>}, c \in {"sales", "region", "date", "nonexistent"},
             m \in {"iqr", "zscore", "mad"}, s \in BOOLEAN }
    \cup { [fn |-> "identify_trends", df |-> SeriesFrame("datetime", Ramp(3), {}),
            date_column |-> "date", value_column |-> "sales", scipy |-> TRUE, reg |-> g] :
             g \in Regressions }
    \cup { [fn |-> "identify_trends", df |-> SeriesFrame(k, Seasonal(n, m, 10, v), {}),
            date_column |-> "date", value_column |-> "sales", scipy |-> s, reg |-> g] :
             k \in {"datetime", "text"}, n \in {11, 12, 13}, m \in {1, 7, 12},
             v \in {5, 8, 10, 12, 13, 20}, s \in BOOLEAN, g \in SomeRegressions }
    \cup { [fn |-> "identify_trends", df |-> SeriesFrame(k, v, {}),
            date_column |-> d, value_column |-> c, scipy |-> TRUE, reg |-> g] :
             k \in {"datetime", "text", "junk", "none"},
             v \in {l \in ValueLists : \A i \in 1..Len(l) : l[i] # 9},
             d \in {"date", "region", "nonexistent"}, c \in {"sales", "region", "nonexistent"},
             g \in SomeRegressions }

InitAnalysis ==
    /\ pc = "call"
    /\ call \in AnalysisCalls
    /\ df = call.df
    /\ ret = NoRet
    /\ input = CHOOSE i \in Inputs : i.upload = NoUpload /\ i.sample = NoSample /\ ~i.button /\ ~i.api_key
    /\ story_result = NoStory
    /\ idx = 0
    /\ out = <<>>
    /\ posts = 0
    /\ analyses = 0
    /\ fs = EmptyDir
    /\ load = [p \in Loads |-> Idle]

\* the routine returns or raises; the caller's dataset is what it left
ReturnLeaving(o) ==
    /\ ret' = o.value
    /\ df' = o.df
    /\ pc' = "returned"
    /\ UNCHANGED <<input, story_result, idx, out, posts, analyses, call, fs, load>>

CallAnalyzeDataframe ==
    /\ pc = "call"
    /\ call.fn = "analyze_dataframe"
    /\ ReturnLeaving(analyze_dataframe(df))

CallCleanData ==
    /\ pc = "call"
    /\ call.fn = "clean_data"
    /\ ReturnLeaving(clean_data(df, call.handle_missing, call.handle_outliers))

CallIdentifyCorrelations ==
    /\ pc = "call"
    /\ call.fn = "identify_correlations"
    /\ ReturnLeaving(identify_correlations(df, call.threshold, call.corr))

CallDetectAnomalies ==
    /\ pc = "call"
    /\ call.fn = "detect_anomalies"
    /\ ReturnLeaving(detect_anomalies(df, call.column, call.method, call.threshold, call.scipy))

CallIdentifyTrends ==
    /\ pc = "call"
    /\ call.fn = "identify_trends"
    /\ ReturnLeaving(identify_trends(df, call.date_column, call.value_column, call.scipy, call.reg))

NextAnalysis ==
    \/ CallAnalyzeDataframe
    \/ CallCleanData
    \/ CallIdentifyCorrelations
    \/ CallDetectAnomalies
    \/ CallIdentifyTrends

SpecAnalysis == InitAnalysis /\ [][NextAnalysis]_vars

----------------------------------------------------------------------------
(* Properties of the narrative service client and of the script run        *)

IsCall(fn) == pc = "returned" /\ call.fn = fn

\* the outcomes C1 lists: a transport error, a non-2xx status, a body without
\* choices[0].message.content, content that is not JSON
ListedFailure(r) ==
    \/ r.transport = "error"
    \/ r.status \notin 200..299
    \/ /\ r.body = Dict
       /\ \/ r.choices \in {Absent, "empty"}
          \/ r.choices = List /\ r.choice = Dict /\ r.message \in {Absent, Null}
          \/ r.choices = List /\ r.choice = Dict /\ r.message = Dict
               /\ r.content \in {Absent, Null, "not_json"}

\* C1: generate_data_story never raises; for a transport error, a non-2xx
\* status, a body without choices[0].message.content (choices missing or
\* empty, message or content missing or null) or content that is not JSON it
\* returns null.
C1_ClientReturnsNull ==
    (IsCall("generate_data_story") /\ call.api_key /\ ListedFailure(call.response))
        => ret.result = "null"

Rendering == pc \in {"render", "insights", "narrative", "actions"}

\* C2: the story that reaches the rendering steps is never null; whenever
\* generate_data_story returned null the story rendered is the fallback story.
C2_StoryNeverNull ==
    Rendering => /\ story_result.top # Null
                 /\ ret.result = "null" => story_result = dummy_data(df)

\* a request was sent, it failed, and the fallback story is being rendered
C2_Witness ==
    /\ pc = "insights"
    /\ posts = 1
    /\ ret.result = "null"
    /\ story_result = dummy_data(df)

\* C3: rendering runs to its end without raising for every non-null parsed
\* response: a run never ends in an exception once the client returned a value.
C3_RenderingNeverRaises ==
    pc = "crashed" => ret.result = "raise"

IsStep(e) == e.ev \in {"insight", "narrative", "actions"}

Steps == SelectSeq(out, IsStep)

FailureNotes == {"error", "warning_chart", "warning_columns"}

\* C4: a failure while handling one insight or its chart never aborts the
\* rendering: the insights are processed one after the other, in order, each
\* exactly once, and the narrative and the actions follow the last insight;
\* no run that renders a story object ends in an exception.
C4_FailureDoesNotAbort ==
    LET n == IF story_result.key_insights = List THEN Len(story_result.insights) ELSE 0
        done == CASE pc = "render" -> 0
                  [] pc = "insights" -> idx - 1
                  [] OTHER -> n
        tail == (IF pc \in {"actions", "done"} THEN 1 ELSE 0) + (IF pc = "done" THEN 1 ELSE 0)
        story == (Rendering /\ story_result.top = Dict /\ story_result.key_insights = List)
                    \/ (pc = "done" /\ analyses = 1)
    IN  /\ pc = "crashed" => story_result.top # Dict
        /\ story => /\ pc = "insights" => idx \in 1..n
                    /\ Len(Steps) = done + tail
                    /\ \A k \in 1..done : Steps[k].ev = "insight" /\ Steps[k].i = k
                    /\ pc \in {"actions", "done"} => Steps[n + 1].ev = "narrative"
                    /\ pc = "done" => Steps[n + 2].ev = "actions"

\* the first insight failed, the second was charted, narrative and actions followed
C4_Witness ==
    /\ pc = "done"
    /\ Len(Steps) = 4
    /\ Steps[1].note \in FailureNotes
    /\ Steps[2].note = "chart"

IsLoadError(e) == e.ev = "error" /\ e.note = "load"

\* C5: the pipeline starts only when a dataset is loaded in the interaction:
\* with nothing uploaded and no sample chosen, or after a failed load, no
\* analysis is run and no request is sent; a failed load shows a message and
\* the run goes on to its end.
C5_PipelineNeedsDataset ==
    /\ df = NoDf => (analyses = 0 /\ posts = 0 /\ pc \in {"start", "loaded", "done"})
    /\ (pc # "start" /\ input.upload = NoUpload /\ input.sample = NoSample) => df = NoDf
    /\ SelectSeq(out, IsLoadError) # <<>> => df = NoDf
    /\ (pc # "start" /\ df = NoDf /\ ~(input.upload = NoUpload /\ input.sample = NoSample))
          => SelectSeq(out, IsLoadError) # <<>>

\* the button was pressed after a failed load and the run ended without analysis
C5_Witness ==
    /\ pc = "done"
    /\ input.button
    /\ input.upload # NoUpload
    /\ SelectSeq(out, IsLoadError) # <<>>
    /\ analyses = 0


----------------------------------------------------------------------------
(* Properties of the chart binder *)

\* the column name is absent from the chart specification, or it is a string
\* that names no column of d
Unbound(v, d) == v = Absent \/ (v \notin NonStrings /\ ~InColumns(v, d))

\* C6: create_chart never raises: for every dataset and every chart
\* specification it returns a chart or null; it returns null for an
\* unrecognized type, for a heatmap on fewer than 2 numeric columns and
\* whenever the rendering routine raises.
C6_CreateChartNeverRaises ==
    IsCall("create_chart") =>
        LET t == call.chart_info.type
        IN  /\ ret.result \in {Fig, "null"}
            /\ t \in {"unknown_type", Absent} => ret.result = "null"
            /\ (t \in {"heatmap", "HeatMap"} /\ Cardinality(NumericCols(call.d)) < 2)
                  => ret.result = "null"
            /\ (ret.routine # NoRoutine /\ call.lib = "raise") => ret.result = "null"

\* C7: validation precedes dispatch: when x_column or y_column is absent or
\* names no column of the dataset, create_chart returns null and invokes no
\* rendering routine; a routine is invoked only with existing columns.
C7_ValidationPrecedesDispatch ==
    IsCall("create_chart") =>
        LET c == call.chart_info
        IN  /\ ({c.x_column, c.y_column} \cap NonStrings = {}
                  /\ (Unbound(c.x_column, call.d) \/ Unbound(c.y_column, call.d)))
                  => (ret.result = "null" /\ ret.routine = NoRoutine)
            /\ ret.routine # NoRoutine
                  => (InColumns(c.x_column, call.d) /\ InColumns(c.y_column, call.d))

\* C8: a heatmap specification ignores x/y columns: on a dataset with at
\* least 2 numeric columns it yields a chart whether or not x_column and
\* y_column are present or name existing columns.
C8_HeatmapIgnoresColumns ==
    (IsCall("create_chart") /\ call.chart_info.type = "heatmap" /\ call.lib = "ok"
        /\ Cardinality(NumericCols(call.d)) >= 2)
    => ret.result = Fig

----------------------------------------------------------------------------
(* Properties of the loader *)

\* the encodings load_csv_with_encoding may try on a file, in order
Order(content) ==
    (IF content.detected = DetectFails THEN <<>> ELSE <<content.detected>>)
        \o <<"utf-8", "cp949", "euc-kr", "latin1">>

\* C9: load_csv_with_encoding tries the detected encoding first, then utf-8,
\* cp949, euc-kr, latin1 in this order; it returns the dataset parsed with
\* the first encoding of that order that parses, tries none after a success
\* and fails only when every attempt has failed.
C9_FirstEncodingThatParses ==
    IsCall("load_csv_with_encoding") =>
        LET order == Order(call.content)
            n == Len(ret.attempts)
        IN  /\ n \in 1..Len(order)
            /\ ret.attempts = SubSeq(order, 1, n)
            /\ \A k \in 1..(n - 1) : ~ReadCsvOk(call.content, order[k])
            /\ ret.result \in {"df", "raise"}
            /\ ret.result = "df" =>
                  /\ ReadCsvOk(call.content, order[n])
                  /\ ret.enc = order[n]
                  /\ ret.data = call.content.data
            /\ ret.result = "raise" =>
                  /\ n = Len(order)
                  /\ ~ReadCsvOk(call.content, order[n])
                  /\ ret.data = NoDf

\* the detected encoding, utf-8 and cp949 failed and euc-kr parsed the file
C9_Witness ==
    /\ IsCall("load_csv_with_encoding")
    /\ ret.result = "df"
    /\ ret.attempts = <<"ascii", "utf-8", "cp949", "euc-kr">>

Ended(l) == l.at \in {"returned", "raised"}

\* C10: after load_uploaded_file returned a dataset or failed, the temporary
\* file it created no longer exists, on the success path and on every
\* failure path (when no other load ran, nothing is left at its path); a
\* failure ends in an error, never in a returned value.
C10_TempFileRemoved ==
    \A p \in Loads :
        Ended(load[p]) =>
            /\ \A path \in Paths : ~(fs[path].exists /\ fs[path].creator = p)
            /\ (\A q \in Loads \ {p} : load[q].at = "idle")
                  => ~fs[TempPath(load[p].upload.name)].exists
            /\ load[p].at = "returned" => (load[p].upload.write = "ok" /\ load[p].data # NoDf)
            /\ load[p].at = "raised" => (load[p].data = NoDf /\ load[p].exc # "")

\* a load whose copy was created and whose write failed has ended with an
\* error and its file is gone; another one went through every encoding
C10_Witness ==
    \E p \in Loads :
        /\ load[p].at = "raised"
        /\ load[p].upload.write = "write_fails"
        /\ ~fs[TempPath(load[p].upload.name)].exists
        /\ \A q \in Loads \ {p} : load[q].at = "idle"
        /\ fs = EmptyDir

----------------------------------------------------------------------------
(* The requests of one run of the page                                     *)

\* C11: each call of generate_data_story issues at most one HTTP POST,
\* exactly one when the credential is configured and none when it is absent,
\* never a second one after a failure; one pipeline run calls
\* generate_data_story exactly once (its result is recorded once and never
\* replaced).
C11_AtMostOnePost ==
    /\ [](/\ posts <= 1
          /\ ret = NoRet => posts = 0
          /\ ret # NoRet => (ret.sent = posts /\ posts = (IF input.api_key THEN 1 ELSE 0))
          /\ analyses = 0 => ret = NoRet
          /\ (analyses = 1 /\ pc # "prompted") => ret # NoRet)
    /\ [][ret' # ret => (ret = NoRet /\ pc = "prompted")]_vars

\* a run with a credential whose single request failed and which went on to
\* the end of the page on the fallback story
C11_Witness ==
    /\ pc = "done"
    /\ input.api_key
    /\ analyses = 1
    /\ ret # NoRet
    /\ ret.result = "null"
    /\ posts = 1

----------------------------------------------------------------------------
(* Properties of the prompt                                                *)

\* C12: every entry of high_correlations in the summary built by
\* generate_data_story_prompt names two distinct columns and carries a
\* coefficient of absolute value at least 0.5: no entry has a smaller
\* coefficient, a nan coefficient, or the same column twice.
C12_HighCorrelationsFiltered ==
    IsCall("generate_data_story_prompt") =>
        \A k \in 1..Len(ret.info.high_correlations) :
            LET e == ret.info.high_correlations[k]
            IN  /\ e.column1 # e.column2
                /\ ~e.correlation.nan
                /\ (e.correlation.v >= HighCorrelation \/ e.correlation.v <= -HighCorrelation)

\* the matrix held a nan, a coefficient below 0.5, the diagonal and a
\* coefficient of exactly -0.5; only the last is listed
C12_Witness ==
    /\ IsCall("generate_data_story_prompt")
    /\ call.dataframe_info.correlation.kind = "dict"
    /\ \E p \in DOMAIN call.dataframe_info.correlation.val :
          call.dataframe_info.correlation.val[p] = NaN
    /\ \E p \in DOMAIN call.dataframe_info.correlation.val :
          call.dataframe_info.correlation.val[p] = Coef(49)
    /\ ret.info.has_high
    /\ \E k \in 1..Len(ret.info.high_correlations) :
          ret.info.high_correlations[k].correlation = Coef(-50)

\* C13: an unrecognized audience, focus or length value is never rejected:
\* each of the three is resolved on its own through its lookup table, to the
\* fixed fragment of a recognized value and to the generic fragment of that
\* slot otherwise, and a prompt is returned in every case.
C13_UnknownValuesFallBack ==
    IsCall("generate_data_story_prompt") =>
        /\ ret.result = "prompt"
        /\ ret.audience = (IF call.audience \in {"executive", "marketing", "technical", "general"}
                           THEN "audience_" \o call.audience ELSE "generic_reader")
        /\ ret.focus = (IF call.focus \in {"trends", "anomalies", "correlations", "holistic"}
                        THEN "focus_" \o call.focus ELSE "generic_focus")
        /\ ret.length = (IF call.length \in {"brief", "normal", "detailed"}
                         THEN "length_" \o call.length ELSE "generic_length")

\* an unknown audience next to a recognized focus and a null length
C13_Witness ==
    /\ IsCall("generate_data_story_prompt")
    /\ call.audience = "students"
    /\ call.focus = "anomalies"
    /\ call.length = Null
    /\ ret.result = "prompt"
    /\ ret.audience = "generic_reader"
    /\ ret.focus = "focus_anomalies"
    /\ ret.length = "generic_length"

----------------------------------------------------------------------------
(* Properties of the profiler and of the analysis routines                 *)

\* C14: analyze_dataframe never fails and, for every dataset (zero rows,
\* columns with only missing values, datetime and boolean columns), returns
\* an analysis whose missing_values holds exactly one count per column, a
\* count that is not negative and is there when it is zero: the number of
\* missing cells of that column.
C14_MissingValuesPerColumn ==
    IsCall("analyze_dataframe") =>
        /\ ret.result = "value"
        /\ DOMAIN ret.missing_values = DOMAIN call.df.cols
        /\ \A c \in DOMAIN call.df.cols :
              /\ ret.missing_values[c] \in 0..call.df.rows
              /\ ret.missing_values[c] =
                    Cardinality({i \in 1..call.df.rows : i \in call.df.cols[c].null})

\* a dataset with a datetime and a boolean column, a column with only
\* missing values and one with a single missing value
C14_Witness ==
    /\ IsCall("analyze_dataframe")
    /\ DOMAIN call.df.cols = {"date", "sales", "region", "active"}
    /\ call.df.cols["date"].dtype = "datetime64[ns]"
    /\ call.df.rows = 3
    /\ ret.result = "value"
    /\ ret.missing_values["region"] = 3
    /\ ret.missing_values["sales"] = 1
    /\ ret.missing_values["active"] = 0
    /\ ret.missing_values["date"] = 0

\* a dataset without rows, whose counts are all zero
C14_ZeroRows ==
    /\ IsCall("analyze_dataframe")
    /\ call.df.rows = 0
    /\ DOMAIN call.df.cols = {"sales", "region"}
    /\ ret.missing_values = [c \in {"sales", "region"} |-> 0]

AnalysisOperations ==
    {"analyze_dataframe", "identify_correlations", "identify_trends", "detect_anomalies"}

\* C15: analyze_dataframe, identify_correlations, identify_trends and
\* detect_anomalies never change the caller's dataset; clean_data changes
\* data only in the new dataset it returns and leaves its input as it was.
C15_CallerDatasetUnchanged ==
    (pc = "returned" /\ call.fn \in AnalysisOperations \cup {"clean_data"}) => df = call.df

TargetNotUsable ==
    \/ call.column \notin DOMAIN call.df.cols
    \/ call.df.cols[call.column].dtype \notin {"int64", "float64", "bool"}

DateNotUsable ==
    \/ call.date_column \notin DOMAIN call.df.cols
    \/ (call.df.cols[call.date_column].dtype # "datetime64[ns]"
          /\ ~call.df.cols[call.date_column].parses)

\* C16: detect_anomalies and identify_trends never raise, scipy being
\* installed: for a target column that is missing or not numeric, and for a
\* date column that is missing or cannot be converted, they return an error
\* value, on every dataset (an empty one included) and for both methods.
C16_AnalysisNeverRaises ==
    /\ (IsCall("detect_anomalies") /\ call.scipy) =>
          /\ ret.result # "raise"
          /\ TargetNotUsable => ret.result = "error"
    /\ (IsCall("identify_trends") /\ call.scipy) =>
          /\ ret.result # "raise"
          /\ DateNotUsable => ret.result = "error"

Flagged8(col, lower, upper) ==
    {i \in (1..Len(col.cells)) \ col.null : 8 * col.cells[i] < lower \/ 8 * col.cells[i] > upper}

IqrCall == IsCall("detect_anomalies") /\ call.method = "iqr" /\ ret.result = "value"

\* C17: with the IQR method detect_anomalies flags exactly the rows whose
\* value lies outside [Q1 - k*IQR, Q3 + k*IQR] (a value equal to a bound is
\* not flagged) and anomaly_count is the number of flagged rows; for the
\* values 1, 2, 3, 4, 5, 100 and k = 1.5 the bounds are -1.5 and 8.5 and 100
\* is the only anomaly; for 1..10 they are -3.5 and 14.5 and nothing is.
C17_IqrFlagsOutsideBounds ==
    IqrCall =>
        LET col == call.df.cols[call.column]
            outside == IF ret.lower_bound.nan THEN {}
                       ELSE Flagged8(col, ret.lower_bound.v, ret.upper_bound.v)
        IN  /\ ret.has_bounds
            /\ ret.anomaly_count = Cardinality(outside)
            /\ ~ret.anomalies_null => {ret.anomalies[k] : k \in 1..Len(ret.anomalies)} = outside
            /\ (col.cells = <<1, 2, 3, 4, 5, 100>> /\ call.threshold = 3) =>
                  /\ ret.lower_bound = Coef(-12)
                  /\ ret.upper_bound = Coef(68)
                  /\ ret.anomalies = <<6>>
            /\ (col.cells = [i \in 1..10 |-> i] /\ call.threshold = 3) =>
                  /\ ret.lower_bound = Coef(-28)
                  /\ ret.upper_bound = Coef(116)
                  /\ ret.anomaly_count = 0
            /\ (col.cells = <<1, 1, 1, 1>> /\ call.threshold = 0 /\ col.null = {}) =>
                  /\ ret.lower_bound = Coef(8)
                  /\ ret.upper_bound = Coef(8)
                  /\ ret.anomaly_count = 0

\* the example of the claim: the sixth row, 100, is the sole anomaly
C17_Witness ==
    /\ IqrCall
    /\ call.df.cols["sales"].cells = <<1, 2, 3, 4, 5, 100>>
    /\ call.threshold = 3
    /\ ret.anomaly_count = 1
    /\ ret.anomalies = <<6>>

\* the monthly means of the observations of a call, each multiplied by the
\* product of the sizes of the months
MonthsOf(f) == {Month(f.cols["date"].cells[i]) : i \in 1..f.rows}

RowsOf(f, m) == {i \in 1..f.rows : Month(f.cols["date"].cells[i]) = m}

Sizes(f) == [m \in MonthsOf(f) |-> Cardinality(RowsOf(f, m))]

MeanTimes(f, m) ==
    (SumCells(f.cols["sales"].cells, RowsOf(f, m)) * ProductOver(Sizes(f), MonthsOf(f)))
        \div Cardinality(RowsOf(f, m))

TrendValue == IsCall("identify_trends") /\ ret.result = "value"

CountedCall ==
    IsCall("detect_anomalies") /\ ret.result = "value" /\ call.method \in {"iqr", "zscore"}

\* C19: detect_anomalies includes the flagged rows exactly when there are at
\* most 10 of them; with more than 10 the rows are left out (anomalies is
\* null) and a note is added, with at most 10 there is no note;
\* anomaly_count and anomaly_percent are reported in both cases and by both
\* methods.
C19_AnomalyListCapped ==
    CountedCall =>
        /\ ret.has_count
        /\ ret.anomaly_count \in 0..call.df.rows
        /\ ret.anomaly_percent = <<100 * ret.anomaly_count, call.df.rows>>
        /\ ret.anomaly_count <= 10 =>
              (~ret.anomalies_null /\ Len(ret.anomalies) = ret.anomaly_count /\ ~ret.has_note)
        /\ ret.anomaly_count > 10 =>
              (ret.anomalies_null /\ ret.anomalies = << >> /\ ret.has_note)

\* twelve of twenty-two values lie outside the quartiles: no rows, a note
C19_Witness ==
    /\ CountedCall
    /\ call.method = "iqr"
    /\ call.df.rows = 22
    /\ ret.anomaly_count = 12
    /\ ret.anomalies_null
    /\ ret.has_note

\* with the z-score method ten of eleven values are flagged and all listed
C19_TenListed ==
    /\ CountedCall
    /\ call.method = "zscore"
    /\ call.df.rows = 11
    /\ ret.anomaly_count = 10
    /\ Len(ret.anomalies) = 10
    /\ ~ret.has_note

RegressionUsed == TrendValue /\ ret.overall_trend.kind = "regression"

\* C20: from the result of the regression identify_trends reports, with
\* p < 0.05, direction up if the slope is above 0 and down otherwise (slope 0
\* included) and strength strong if |r| > 0.7, moderate if 0.4 < |r| <= 0.7,
\* weak otherwise; with p >= 0.05 the direction is unclear and the trend not
\* significant; one direction and one strength are reported.
C20_TrendClassification ==
    /\ TrendValue => (ret.overall_trend.kind = "regression" <=> (call.scipy /\ call.reg.kind = "ok"))
    /\ RegressionUsed =>
          LET g == call.reg
              t == ret.overall_trend
              r == IF g.r_value.v < 0 THEN -g.r_value.v ELSE g.r_value.v
          IN  /\ t.direction \in {"up", "down", "unclear"}
              /\ t.strength \in {"strong", "moderate", "weak", "insignificant"}
              /\ (~g.p_value.nan /\ g.p_value.v < 50) =>
                    /\ t.direction = (IF ~g.slope.nan /\ g.slope.v > 0 THEN "up" ELSE "down")
                    /\ ~g.r_value.nan =>
                          t.strength = (CASE r > 70 -> "strong"
                                          [] r > 40 /\ r <= 70 -> "moderate"
                                          [] OTHER -> "weak")
              /\ (~g.p_value.nan /\ g.p_value.v >= 50) =>
                    (t.direction = "unclear" /\ t.strength = "insignificant")

\* a significant regression of slope 0 and r = 0.7: down, moderate
C20_Witness ==
    /\ RegressionUsed
    /\ call.reg.p_value = Coef(49)
    /\ call.reg.slope = Coef(0)
    /\ call.reg.r_value = Coef(70)
    /\ ret.overall_trend.direction = "down"
    /\ ret.overall_trend.strength = "moderate"

----------------------------------------------------------------------------
(* Properties of identify_correlations, of the sample block and of the     *)
(* summary of a symmetric matrix                                           *)

CorrelationsCall == IsCall("identify_correlations") /\ ret.result = "value"

\* the position of a column in the matrix
PositionOf(corr, c) == CHOOSE i \in 1..Len(corr.cols) : corr.cols[i] = c

Magnitude(c) == IF c.v < 0 THEN -c.v ELSE c.v

C21_SingleColumn ==
    /\ CorrelationsCall
    /\ Len(call.corr.cols) = 1
    /\ ret.pairs = << >>

----------------------------------------------------------------------------
(* Ownership of the temporary file of load_uploaded_file                   *)

\* the operation has opened its temporary copy and has not yet removed it
HoldsCopy(l) == l.at \in {"write", "read", "exists", "remove"}

\* C23: a temporary file belongs to exactly one load operation: from the
\* moment an operation has opened its temporary copy until it removes it,
\* the file at its temporary path exists and was created by that operation,
\* so that no operation overwrites, reads or deletes a file created by
\* another operation or a file that was there before it started, also when
\* two operations for uploads of the same name overlap.
C23_TempFileOfOneLoad ==
    \A p \in Loads :
        HoldsCopy(load[p]) =>
            /\ fs[TempPath(load[p].upload.name)].exists
            /\ fs[TempPath(load[p].upload.name)].creator = p

----------------------------------------------------------------------------
(* The summary of a symmetric correlation matrix                           *)

\* the call was given a matrix as analyze_dataframe produces it: a mapping
\* over distinct columns with the same coefficient on both sides
SymmetricCall ==
    /\ IsCall("generate_data_story_prompt")
    /\ call.dataframe_info.correlation.kind = "dict"
    /\ LET m == call.dataframe_info.correlation
           n == Len(m.cols)
       IN  /\ \A i, j \in 1..n : i # j => m.cols[i] # m.cols[j]
           /\ \A i, j \in 1..n : m.val[<<i, j>>] = m.val[<<j, i>>]

\* the positions of the summary's list that hold column1 = a, column2 = b
ListedAt(list, a, b) ==
    {k \in 1..Len(list) : list[k].column1 = a /\ list[k].column2 = b}

\* C24: given the symmetric correlation matrix produced by
\* analyze_dataframe, high_correlations of the Simplified Summary lists every
\* qualifying unordered pair of distinct columns exactly twice, once as
\* (column1 = a, column2 = b) and once as (column1 = b, column2 = a) with the
\* same coefficient, and nothing else, so its length is even; the key is
\* absent when no pair qualifies.
C24_EachPairListedTwice ==
    SymmetricCall =>
        LET m == call.dataframe_info.correlation
            n == Len(m.cols)
            list == ret.info.high_correlations
            qualifies(i, j) == /\ i # j
                               /\ ~m.val[<<i, j>>].nan
                               /\ Magnitude(m.val[<<i, j>>]) >= HighCorrelation
        IN  /\ \A i, j \in 1..n :
                  LET at == ListedAt(list, m.cols[i], m.cols[j])
                      back == ListedAt(list, m.cols[j], m.cols[i])
                  IN  IF qualifies(i, j)
                      THEN /\ Cardinality(at) = 1
                           /\ Cardinality(back) = 1
                           /\ \A k \in at \cup back : list[k].correlation = m.val[<<i, j>>]
                      ELSE at = {}
            /\ \A k \in 1..Len(list) :
                  \E i, j \in 1..n : list[k].column1 = m.cols[i] /\ list[k].column2 = m.cols[j]
            /\ Len(list) % 2 = 0
            /\ Len(list) = 2 * Cardinality({p \in (1..n) \X (1..n) : p[1] < p[2] /\ qualifies(p[1], p[2])})
            /\ ret.info.has_high = (\E i, j \in 1..n : qualifies(i, j))

\* of three columns one pair qualifies: it is listed in both directions
C24_Witness ==
    /\ SymmetricCall
    /\ Len(call.dataframe_info.correlation.cols) = 3
    /\ call.dataframe_info.correlation.val[<<1, 2>>] = Coef(49)
    /\ call.dataframe_info.correlation.val[<<1, 3>>] = Coef(-50)
    /\ call.dataframe_info.correlation.val[<<2, 3>>] = NaN
    /\ ret.info.has_high
    /\ ret.info.high_correlations =
          << [column1 |-> "sales", column2 |-> "price", correlation |-> Coef(-50)],
             [column1 |-> "price", column2 |-> "sales", correlation |-> Coef(-50)] >>

\* no pair of the symmetric matrix qualifies: the key is absent
C24_NoneQualifies ==
    /\ SymmetricCall
    /\ Len(call.dataframe_info.correlation.cols) = 3
    /\ ~ret.info.has_high
    /\ ret.info.high_correlations = << >>

=============================================================================
